---- MODULE Spec2Model ----
(***************************************************************************)
(* Model of the puente Slack bridge daemon (src/.puente/puente.py):        *)
(* the agent registry, the monitoring loop (_monitor_and_notify), the      *)
(* batch notification protocol (_notify_agent_batch), the relevance        *)
(* filter (filter_relevant_messages_for_agent) and the gateway handlers    *)
(* register_agent / unregister_agent.                                      *)
(*                                                                         *)
(* Time.  time.time() is a double.  For epoch seconds in [2^30, 2^31) one  *)
(* unit in the last place of a double is 2^-22 s, so the clock `now' is    *)
(* counted in such units (ulps) from a whole-second base.  Slack message   *)
(* timestamps and the stored watermark are decimal strings with six        *)
(* digits after the point; they are counted in microseconds from the same  *)
(* base.  Fmt6 is f"{x:.6f}" and ParseTs is float(s).                      *)
(*                                                                         *)
(* Text.  A text is a sequence of one-character strings.                   *)
(***************************************************************************)
EXTENDS Integers, Sequences, FiniteSets, TLC

----------------------------------------------------------------------------
(* Bounds of the model *)

\* observations of the clock after the first
MaxClock == 1
\* messages on the default channel
MaxMsgs == 2
\* register and unregister calls that change the registry during one tick
MaxRaces == 1

----------------------------------------------------------------------------
(* Time: doubles (in ulps of 2^-22 s) and six-decimal strings (in us) *)

UlpsPerSec == 4194304
MicrosPerSec == 1000000

\* 5.0 seconds as a double, in ulps (asyncio.sleep(5), time.time() - 5.0)
Sec5 == 5 * UlpsPerSec

\* f"{x:.6f}": the decimal with six digits nearest to the double x
\* (ties to even).  2^22 / 10^6 = 65536 / 15625.
Fmt6(x) ==
    LET sec == x \div UlpsPerSec
        r   == x % UlpsPerSec
        q   == r \div 65536
        s   == r % 65536
        n   == s * 15625
        q0  == n \div 65536
        rem == n % 65536
        lo  == q * 15625 + q0
        up  == rem > 32768 \/ (rem = 32768 /\ lo % 2 = 1)
    IN  sec * MicrosPerSec + lo + (IF up THEN 1 ELSE 0)

\* float(s): the double nearest to the six-digit decimal s
ParseTs(t) ==
    LET sec == t \div MicrosPerSec
        m   == t % MicrosPerSec
        q   == m \div 15625
        s   == m % 15625
        n   == s * 65536
        q0  == n \div 15625
        rem == n % 15625
    IN  sec * UlpsPerSec + q * 65536 + q0 + (IF 2 * rem > 15625 THEN 1 ELSE 0)

----------------------------------------------------------------------------
(* Text helpers: Python str operations on sequences of characters *)

UpperToLower ==
    [c \in {"A", "C", "D", "E", "H", "L", "N", "R"} |->
        CASE c = "A" -> "a" [] c = "C" -> "c" [] c = "D" -> "d"
          [] c = "E" -> "e" [] c = "H" -> "h" [] c = "L" -> "l"
          [] c = "N" -> "n" [] c = "R" -> "r"]

\* variant: no case folding
LowerNone(text) == text

\* str.lower()
Lower(text) ==
    [i \in 1..Len(text) |->
        IF text[i] \in DOMAIN UpperToLower THEN UpperToLower[text[i]] ELSE text[i]]

Letters == {"a", "b", "c", "d", "e", "g", "h", "i", "l", "m", "n", "o", "p",
            "r", "s", "t", "u", "v", "w", "y",
            "A", "C", "D", "E", "H", "L", "N", "R", "U"}
Digits == {"0", "1", "2", "3", "4", "5", "6", "7", "8", "9"}

\* str.isalnum() of one character
IsAlnum(ch) == ch \in Letters \cup Digits

\* pattern occurs in text at 1-based position i
MatchAt(pattern, text, i) ==
    /\ i >= 1
    /\ i + Len(pattern) - 1 <= Len(text)
    /\ \A k \in 1..Len(pattern) : text[i + k - 1] = pattern[k]

\* Python `pattern in text'
Contains(pattern, text) ==
    \E i \in 1..(Len(text) - Len(pattern) + 1) : MatchAt(pattern, text, i)

\* text.find(pattern) as a 1-based position, 0 when absent
Find(pattern, text) ==
    IF Contains(pattern, text)
    THEN CHOOSE i \in 1..(Len(text) - Len(pattern) + 1) :
            /\ MatchAt(pattern, text, i)
            /\ \A j \in 1..(i - 1) : ~MatchAt(pattern, text, j)
    ELSE 0

----------------------------------------------------------------------------
(* Configuration (SlackDaemon.load_config): the "agents" section *)

\* keys of self.agent_configs
AgentConfigs == {"red", "blue"}

\* colors for which start() created a SlackAPIClient (those with a bot_token)
SlackClients == {"red", "blue"}

\* tokens a gateway caller may send as agent_color ("" is an absent parameter)
Tokens == {"red", "blue", "pink", ""}

\* agent_config.get("bot_user_id")
BotUserId(color) ==
    CASE color = "red"  -> <<"U", "1">>
      [] color = "blue" -> <<"U", "2">>
      [] OTHER          -> <<>>

\* the color as text
ColorChars(color) ==
    CASE color = "red"  -> <<"r", "e", "d">>
      [] color = "blue" -> <<"b", "l", "u", "e">>
      [] OTHER          -> <<"p", "i", "n", "k">>

\* a human user of the workspace
HumanUser == <<"U", "9">>

----------------------------------------------------------------------------
(* filter_relevant_messages_for_agent *)

\* variant: "@channel" is no team keyword
team_keywordsNoChannel ==
    << <<"@", "h", "e", "r", "e">>,
       <<"@", "e", "v", "e", "r", "y", "o", "n", "e">>,
       <<"a", "l", "l", " ", "a", "g", "e", "n", "t", "s">>,
       <<"t", "e", "a", "m", " ", "m", "e", "e", "t", "i", "n", "g">>,
       <<"s", "y", "s", "t", "e", "m", " ", "a", "l", "e", "r", "t">>,
       <<"c", "r", "i", "t", "i", "c", "a", "l">>,
       <<"e", "m", "e", "r", "g", "e", "n", "c", "y">>,
       <<"d", "e", "p", "l", "o", "y", "m", "e", "n", "t">>,
       <<"o", "u", "t", "a", "g", "e">>,
       <<"m", "a", "i", "n", "t", "e", "n", "a", "n", "c", "e">>,
       <<"d", "a", "e", "m", "o", "n", " ", "r", "e", "s", "t", "a", "r", "t">> >>

team_keywords ==
    << <<"@", "h", "e", "r", "e">>,
       <<"@", "c", "h", "a", "n", "n", "e", "l">>,
       <<"@", "e", "v", "e", "r", "y", "o", "n", "e">>,
       <<"a", "l", "l", " ", "a", "g", "e", "n", "t", "s">>,
       <<"t", "e", "a", "m", " ", "m", "e", "e", "t", "i", "n", "g">>,
       <<"s", "y", "s", "t", "e", "m", " ", "a", "l", "e", "r", "t">>,
       <<"c", "r", "i", "t", "i", "c", "a", "l">>,
       <<"e", "m", "e", "r", "g", "e", "n", "c", "y">>,
       <<"d", "e", "p", "l", "o", "y", "m", "e", "n", "t">>,
       <<"o", "u", "t", "a", "g", "e">>,
       <<"m", "a", "i", "n", "t", "e", "n", "a", "n", "c", "e">>,
       <<"d", "a", "e", "m", "o", "n", " ", "r", "e", "s", "t", "a", "r", "t">> >>

AgentDash == <<"a", "g", "e", "n", "t", "-">>
CanonicalColors ==
    { <<"r", "e", "d">>, <<"b", "l", "u", "e">>,
      <<"g", "r", "e", "e", "n">>, <<"b", "l", "a", "c", "k">> }

\* the detection_patterns list; an empty name stands for None
detection_patterns(agent_identifier, friendly_agent_name, config_bot_name) ==
    LET id == Lower(agent_identifier)
        fr == Lower(friendly_agent_name)
        cf == Lower(config_bot_name)
    IN  (IF friendly_agent_name # <<>>
         THEN << AgentDash \o fr, <<"@">> \o AgentDash \o fr, fr, <<"@">> \o fr >>
         ELSE << >>)
        \o << AgentDash \o id, <<"@">> \o AgentDash \o id, <<"@">> \o id >>
        \o (IF config_bot_name # <<>> THEN << cf, <<"@">> \o cf >> ELSE << >>)
        \o (IF id \in CanonicalColors
            THEN << <<"@", "a", "g", "e", "n", "t", " ">> \o id,
                    <<"@", "a", "g", "e", "n", "t">> \o id,
                    <<"[">> \o id \o <<"]">>,
                    id \o <<":">> >>
            ELSE << >>)

\* variant: reactions are not looked at
AgentReactedNever(msg, bot_user_id) == FALSE

\* the agent_reacted loop over msg["reactions"]
AgentReacted(msg, bot_user_id) ==
    \E i \in 1..Len(msg.reactions) : bot_user_id \in msg.reactions[i].users

\* variant: no pattern is rejected
FalsePositiveNever(pattern, text_lower) == FALSE

\* the false-positive guard on the first occurrence of a pattern
FalsePositive(pattern, text_lower) ==
    LET after_pattern_pos == Find(pattern, text_lower) + Len(pattern)
    IN  /\ after_pattern_pos <= Len(text_lower)
        /\ pattern[1] = "@"
        /\ (IsAlnum(text_lower[after_pattern_pos]) \/ text_lower[after_pattern_pos] = "-")

\* the loop over detection_patterns: message_matched
MessageMatched(text_lower, patterns) ==
    \E i \in 1..Len(patterns) :
        /\ Contains(patterns[i], text_lower)
        /\ ~FalsePositive(patterns[i], text_lower)

\* variant: the agent's own messages are not skipped
IsRelevantOwn(msg, agent_identifier, exclude_reacted, bot_user_id, friendly_agent_name, config_bot_name) ==
    LET text_lower == Lower(msg.text)
    IN  IF exclude_reacted /\ bot_user_id # <<>> /\ AgentReacted(msg, bot_user_id)
             THEN FALSE
        ELSE IF \E k \in 1..Len(team_keywords) : Contains(Lower(team_keywords[k]), text_lower)
             THEN TRUE
        ELSE IF bot_user_id # <<>> /\ Contains(<<"<", "@">> \o bot_user_id \o <<">">>, msg.text)
             THEN TRUE
        ELSE MessageMatched(text_lower,
                detection_patterns(agent_identifier, friendly_agent_name, config_bot_name))

\* the decision of the loop body for one message
IsRelevant(msg, agent_identifier, exclude_reacted, bot_user_id, friendly_agent_name, config_bot_name) ==
    LET text_lower == Lower(msg.text)
    IN  IF bot_user_id # <<>> /\ msg.user_id = bot_user_id THEN FALSE
        ELSE IF exclude_reacted /\ bot_user_id # <<>> /\ AgentReacted(msg, bot_user_id)
             THEN FALSE
        ELSE IF \E k \in 1..Len(team_keywords) : Contains(Lower(team_keywords[k]), text_lower)
             THEN TRUE
        ELSE IF bot_user_id # <<>> /\ Contains(<<"<", "@">> \o bot_user_id \o <<">">>, msg.text)
             THEN TRUE
        ELSE MessageMatched(text_lower,
                detection_patterns(agent_identifier, friendly_agent_name, config_bot_name))

\* variant: the messages kept, newest position first
filter_relevant_messages_reversed(messages, agent_identifier, exclude_reacted, bot_user_id, friendly_agent_name, config_bot_name) ==
    LET kept == SelectSeq(messages,
                    LAMBDA msg : IsRelevant(msg, agent_identifier, exclude_reacted,
                                            bot_user_id, friendly_agent_name, config_bot_name))
    IN  [i \in 1..Len(kept) |-> kept[Len(kept) + 1 - i]]

\* relevant: the messages kept, in input order
filter_relevant_messages_for_agent(messages, agent_identifier, exclude_reacted, bot_user_id, friendly_agent_name, config_bot_name) ==
    SelectSeq(messages,
              LAMBDA msg : IsRelevant(msg, agent_identifier, exclude_reacted,
                                      bot_user_id, friendly_agent_name, config_bot_name))

----------------------------------------------------------------------------
(* State *)

VARIABLES
    now,                 \* time.time(), in ulps
    channel,             \* the messages of the default channel on the platform
    registered_agents,   \* SlackDaemon.registered_agents, in dict entry order
    pc,                  \* where the monitoring task is suspended
    it,                  \* the dict iterator of the for loop: [used, pos, len]
    loc,                 \* the loop body's locals
    sent,                \* the requests the pending dispatch has posted to the
                         \* callback, each with the answer it got so far
    reply,               \* the last gateway call that was observed, with its
                         \* answer
    hist,                \* per token: history since its last register call
    tick,                \* history of the current (or last) tick
    client,              \* one SlackAPIClient: its rate windows and the tasks
                         \* that are inside _make_request
    server,              \* the HTTPServer: its port, and what its constructor
                         \* found (hash of the working directory, bound ports)
    outgoing,            \* the text of a send_message call on its way through
                         \* the rewriting of the gateway
    cache                \* the directory cache of one SlackAPIClient and the
                         \* tasks that are inside _update_cache_if_needed

vars == <<now, channel, registered_agents, pc, it, loc, sent, reply, hist, tick, client, server, outgoing, cache>>

\* a deleted slot of the dict's entry array
Dummy == [color |-> "<dummy>", opencode_port |-> 0, last_seen |-> 0,
          last_message_timestamp |-> 0]

\* no timestamp (None)
NoTs == -1

\* dict operations on the entry array
Keys(d) == {d[i].color : i \in 1..Len(d)} \ {Dummy.color}
Used(d) == Cardinality({i \in 1..Len(d) : d[i] # Dummy})
IndexOf(d, key) == CHOOSE i \in 1..Len(d) : d[i].color = key
Get(d, key) == d[IndexOf(d, key)]
SetItem(d, key, value) ==
    IF key \in Keys(d) THEN [d EXCEPT ![IndexOf(d, key)] = value]
                       ELSE Append(d, value)
\* variant: the delete clears the whole dict
DelItemAll(d, key) == [i \in 1..Len(d) |-> Dummy]
DelItem(d, key) == [d EXCEPT ![IndexOf(d, key)] = Dummy]
Compact(d) == SelectSeq(d, LAMBDA e : e # Dummy)

\* the awaits inside the for loop of the monitoring task
LiveStates == {"fetch", "append", "submit", "toast"}

\* the for loop of the monitoring task holds a live iterator
IterLive == pc \in LiveStates

\* deleted slots are observable only through a live iterator
Settle(d) == IF IterLive THEN d ELSE Compact(d)

\* the loop body for agent c is suspended between reading agent_info and the
\* watermark write
InFlight(c) == IterLive /\ loc.agent_color = c

NoIter == [used |-> 0, pos |-> 1, len |-> 0]

\* calls: how often the loop body called _notify_agent_batch (history)
NoLoc == [agent_color |-> "", opencode_port |-> 0, agent_last_timestamp |-> NoTs,
          messages |-> << >>, relevant_messages |-> << >>, calls |-> 0]

\* history of a token since its last register call:
\*   clean    the register call did not arrive while the loop body for the
\*            token was suspended
\*   tried    a fetch for the token has been answered or has failed
\*   maxseen  the largest timestamp among the messages get_messages returned
\*            to the loop for the token (NoTs when it returned none)
NoHist == [clean |-> TRUE, tried |-> FALSE, maxseen |-> NoTs]

\* history of the running tick: the tokens registered when it began, the
\* tokens a fetch was issued for, how many register and unregister calls
\* changed the registry while it was suspended, and (both kept until the next
\* tick begins) the tokens whose fetch raised and the batches get_messages
\* returned, each as [color, messages]
NoTick == [regs |-> {}, attempted |-> {}, races |-> 0, failed |-> {},
           fetched |-> {}]

\* a register or unregister call can be served now
Served == IterLive => tick.races < MaxRaces

\* the result of a gateway read: result["messages"], and the since_timestamp
\* the handler used
NoResult == [messages |-> << >>, since_timestamp |-> NoTs]

\* seq tells one call from the next; http is the status of the answer;
\* limit, since_timestamp and exclude_reacted are parameters of the reads;
\* via is the color whose SlackAPIClient called the platform ("" when no
\* platform call was made); file_id is the parameter of the file operations
NoReply == [name |-> "", color |-> "", port |-> 0, error |-> "", success |-> TRUE,
            seq |-> 0, http |-> 200, limit |-> 0, since_timestamp |-> NoTs,
            exclude_reacted |-> TRUE, result |-> NoResult, via |-> "",
            file_id |-> ""]

\* the ports the agents' callback servers listen on
Ports == {4001, 4002}
\* opencode_port as sent by the caller; 0 is an absent parameter
PortInputs == Ports \cup {0}
\* the register calls of agents that each keep to one port
OwnPort == {<<"red", 4001>>, <<"blue", 4002>>, <<"pink", 4001>>}

\* the clock is observed every ClockStep
ClockStep == Sec5 + 3

\* the tasks that call the client (gateway requests, the monitoring loop)
TaskIds == {1, 2}

\* a task outside _make_request; outcome is how its last call ended and posts
\* the number of requests that call sent to the platform
IdleTask == [pc |-> "idle", endpoint_type |-> "", wake |-> 0, posts |-> 0, outcome |-> ""]

\* the windows hold, for every timestamp t of the list, its age now - t in
\* whole seconds, oldest first; an age of 60 stands for every age from 60
\* on.  log is the history of admissions: per category, the ages of the
\* calls admitted less than 60 seconds ago.  elapsed counts the
\* observations of the clock.
NoClient ==
    [message_history |-> << >>, call_history |-> << >>,
     task |-> [k \in TaskIds |-> IdleTask],
     log |-> [message |-> << >>, api |-> << >>],
     elapsed |-> 0]

\* hash_int is int(md5(cwd).hexdigest()[:8], 16), occupied the ports that
\* cannot be bound; port is self.port (0 before the constructor ran), error
\* the exception of the constructor, port_file the content of the port file
NoServer == [hash_int |-> 0, occupied |-> {}, port |-> 0, error |-> "", port_file |-> 0]

\* agent_configs is the "agents" section the text is rewritten with (in
\* dict order), original the text as the caller sent it, text what the
\* rewriting made of it so far, applied how often it was applied
NoOutgoing == [agent_configs |-> << >>, original |-> << >>, text |-> << >>, applied |-> 0]

\* no time (None)
Never == -1

\* a task outside _update_cache_if_needed; since is the time since the `now'
\* the task read on entering it
IdleAccess == [pc |-> "idle", since |-> 0]

\* last_cache_update as its age in minutes (Never for None); the ages are
\* capped one above the expiry.  requests is the history of the refresh
\* requests: per method, the ages of those sent not more than an expiry ago.
NoCache ==
    [last_cache_update |-> Never,
     task |-> [k \in TaskIds |-> IdleAccess],
     requests |-> [channels |-> << >>, users |-> << >>],
     elapsed |-> 0]

Init ==
    /\ now = Sec5
    /\ channel = {}
    /\ registered_agents = << >>
    /\ pc = "sleep"
    /\ it = NoIter
    /\ loc = NoLoc
    /\ sent = << >>
    /\ reply = NoReply
    /\ hist = [c \in Tokens \ {""} |-> NoHist]
    /\ tick = NoTick
    /\ client = NoClient
    /\ cache = NoCache
    /\ server = NoServer
    /\ outgoing = NoOutgoing

----------------------------------------------------------------------------
(* Environment: the clock and the chat platform *)

AdvanceClock ==
    /\ now < Sec5 + MaxClock * ClockStep
    /\ now' = now + ClockStep
    /\ UNCHANGED <<client, server, outgoing, cache, channel, registered_agents, pc, it, loc, sent, reply, hist, tick>>

\* what users and bots post to the default channel
MessageInputs ==
    { [user_id |-> HumanUser, text |-> <<"@", "r", "e", "d", " ", "h", "i">>,
       reactions |-> << >>, hidden |-> FALSE],
      [user_id |-> HumanUser, text |-> <<"@", "h", "e", "r", "e">>,
       reactions |-> << >>, hidden |-> TRUE] }

\* chat.postMessage by anyone: the platform stamps the message with its time
PostMessage(m) ==
    /\ Cardinality(channel) < MaxMsgs
    /\ \A x \in channel : x.timestamp # Fmt6(now)
    /\ channel' = channel \cup
           {[timestamp |-> Fmt6(now), user_id |-> m.user_id, text |-> m.text,
             reactions |-> m.reactions, hidden |-> m.hidden]}
    /\ UNCHANGED <<now, server, outgoing, cache, client, registered_agents, pc, it, loc, sent, reply, hist, tick>>

----------------------------------------------------------------------------
(* Gateway: register_agent and unregister_agent *)

\* variant: the validation against the configuration is missing
KnownColorAny(agent_color) == TRUE

\* the validation `agent_color in self.agent_configs'
KnownColor(agent_color) == agent_color \in AgentConfigs

\* variant: the watermark starts at the registration time itself
InitialTimestampNoGrace(t) == Fmt6(t)

\* variant: the watermark starts 10 seconds before the registration
InitialTimestampTwice(t) == Fmt6(t - 2 * Sec5)

\* initial_timestamp = time.time() - 5.0, stored as f"{initial_timestamp:.6f}"
InitialTimestamp(t) == Fmt6(t - Sec5)

\* the entry register_agent stores
NewEntry(agent_color, opencode_port, t) ==
    [color |-> agent_color, opencode_port |-> opencode_port, last_seen |-> t,
     last_message_timestamp |-> InitialTimestamp(t)]

\* variant: the registry is a list the entry is appended to
StoreEntryAppend(d, agent_color, entry) == Append(d, entry)

\* self.registered_agents[agent_color] = {...}
StoreEntry(d, agent_color, entry) == SetItem(d, agent_color, entry)

\* the ValueError register_agent raises, "" when it raises none
RegisterError(agent_color, opencode_port) ==
    CASE agent_color = "" -> "agent_color parameter is required"
      [] opencode_port = 0 -> "opencode_port parameter is required"
      [] ~KnownColor(agent_color) -> "Unknown agent color"
      [] OTHER -> ""

\* both time.time() calls of one register_agent call read the same clock value
register_agent(agent_color, opencode_port) ==
    IF RegisterError(agent_color, opencode_port) # ""
    THEN \* ValueError: the handler answers with an error
         /\ UNCHANGED <<now, server, outgoing, cache, client, channel, registered_agents, pc, it, loc,
                        sent, hist, tick>>
    ELSE /\ Served
         /\ \E d \in {Settle(registered_agents)} \cup
                      (IF agent_color \in Keys(registered_agents)
                       THEN {} ELSE {Compact(registered_agents)}) :
                \* inserting a new key may resize the dict, which drops the
                \* deleted slots
                registered_agents' =
                    StoreEntry(d, agent_color,
                               NewEntry(agent_color, opencode_port, now))
         /\ hist' = [hist EXCEPT ![agent_color] =
                        [NoHist EXCEPT !.clean = ~InFlight(agent_color)]]
         /\ tick' = [tick EXCEPT !.races = IF IterLive THEN @ + 1 ELSE @]
         /\ UNCHANGED <<now, server, outgoing, cache, client, channel, pc, it, loc, sent>>

\* the ValueError unregister_agent raises, "" when it raises none
UnregisterError(agent_color) ==
    IF agent_color = "" THEN "agent_color parameter is required" ELSE ""

unregister_agent(agent_color) ==
    IF UnregisterError(agent_color) # ""
    THEN \* ValueError
         /\ UNCHANGED <<now, server, outgoing, cache, client, channel, registered_agents, pc, it, loc,
                        sent, hist, tick>>
    ELSE IF agent_color \in Keys(registered_agents)
    THEN /\ Served
         /\ registered_agents' = Settle(DelItem(registered_agents, agent_color))
         /\ hist' = [hist EXCEPT ![agent_color] = NoHist]
         /\ tick' = [tick EXCEPT !.races = IF IterLive THEN @ + 1 ELSE @]
         /\ UNCHANGED <<now, server, outgoing, cache, client, channel, pc, it, loc, sent>>
    ELSE \* {"success": False}
         /\ UNCHANGED <<now, server, outgoing, cache, client, channel, registered_agents, pc, it, loc,
                        sent, hist, tick>>

----------------------------------------------------------------------------
(* SlackAPIClient.get_messages against the platform's conversations.history *)

Max(S) == CHOOSE x \in S : \A y \in S : y <= x

RECURSIVE NewestFirst(_)
NewestFirst(msgs) ==
    IF msgs = {} THEN << >>
    ELSE LET m == CHOOSE x \in msgs : \A y \in msgs : y.timestamp <= x.timestamp
         IN  <<m>> \o NewestFirst(msgs \ {m})

\* conversations.history: the newest `limit' messages after `oldest'
ConversationsHistory(limit, oldest) ==
    LET all == NewestFirst({m \in channel : oldest = NoTs \/ m.timestamp > oldest})
    IN  SubSeq(all, 1, IF Len(all) < limit THEN Len(all) ELSE limit)

\* get_messages: the visible messages of the answer, in the platform's order
get_messages(limit, since_timestamp) ==
    LET raw  == ConversationsHistory(limit, since_timestamp)
        kept == SelectSeq(raw, LAMBDA m : ~m.hidden)
    IN  [i \in 1..Len(kept) |->
            [timestamp |-> kept[i].timestamp, user_id |-> kept[i].user_id,
             text |-> kept[i].text, reactions |-> kept[i].reactions]]

\* limit=10 in the monitoring loop
MonitorLimit == 10

Timestamps(messages) == {messages[i].timestamp : i \in 1..Len(messages)}

----------------------------------------------------------------------------
(* SlackDaemon._monitor_and_notify *)

\* the first live slot at or after pos, 0 when there is none
NextSlot(d, pos) ==
    IF \E i \in pos..Len(d) : d[i] # Dummy
    THEN CHOOSE i \in pos..Len(d) :
            d[i] # Dummy /\ \A j \in pos..(i - 1) : d[j] = Dummy
    ELSE 0

\* the loop from one next() of the dict iterator up to the next await:
\* "error" (RuntimeError of the iterator), "stop" (the dict is exhausted) or
\* "fetch" (get_messages was called for the entry at slot pos - 1)
RECURSIVE Resume(_, _)
Resume(d, iter) ==
    IF Used(d) # iter.used THEN [kind |-> "error", iter |-> iter]
    ELSE LET i == NextSlot(d, iter.pos)
         IN  IF i = 0 THEN [kind |-> "stop", iter |-> iter]
             ELSE IF iter.len = 0 THEN [kind |-> "error", iter |-> iter]
             ELSE LET nxt == [used |-> iter.used, pos |-> i + 1, len |-> iter.len - 1]
                  IN  IF d[i].color \notin AgentConfigs \/ d[i].color \notin SlackClients
                      THEN Resume(d, nxt)
                      ELSE [kind |-> "fetch", iter |-> nxt]

\* the condition of the watermark write
ShouldAdvance(agent_last_timestamp, latest_ts) ==
    agent_last_timestamp = NoTs \/ latest_ts > ParseTs(agent_last_timestamp)

\* variant: the timestamp of the oldest message of the batch
LatestTsOldest(messages) ==
    CHOOSE x \in {ParseTs(t) : t \in Timestamps(messages)} :
        \A t \in Timestamps(messages) : x <= ParseTs(t)

\* latest_ts = max(float(msg.get("timestamp", 0)) for msg in messages)
LatestTs(messages) == Max({ParseTs(t) : t \in Timestamps(messages)})

\* the write self.registered_agents[agent_color]["last_message_timestamp"] = ...
\* (a KeyError when the entry is gone: the loop body's except logs it)
WriteWatermark(d, agent_color, agent_last_timestamp, messages) ==
    IF messages # << >> /\ ShouldAdvance(agent_last_timestamp, LatestTs(messages))
       /\ agent_color \in Keys(d)
    THEN [d EXCEPT ![IndexOf(d, agent_color)].last_message_timestamp =
                        Fmt6(LatestTs(messages))]
    ELSE d

\* the monitoring task runs on from registry d with iterator iter until its
\* next await; h and tk are the histories so far
RunOn(d, iter, h, tk) ==
    LET r == Resume(d, iter)
    IN  /\ hist' = h
        /\ sent' = << >>
        /\ CASE r.kind = "fetch" ->
               LET e == d[r.iter.pos - 1]
               IN  /\ pc' = "fetch"
                   /\ it' = r.iter
                   /\ loc' = [NoLoc EXCEPT !.agent_color = e.color,
                                           !.opencode_port = e.opencode_port,
                                           !.agent_last_timestamp = e.last_message_timestamp]
                   /\ registered_agents' = d
                   /\ tick' = [tk EXCEPT !.attempted = @ \cup {e.color}]
             [] r.kind = "stop" ->
               \* back to the top of the while loop: await asyncio.sleep(5)
               /\ pc' = "sleep"
               /\ it' = NoIter
               /\ loc' = NoLoc
               /\ registered_agents' = Compact(d)
               /\ tick' = [NoTick EXCEPT !.failed = tk.failed,
                                         !.fetched = tk.fetched]
             [] r.kind = "error" ->
               \* except Exception: await asyncio.sleep(5)
               /\ pc' = "retry_sleep"
               /\ it' = NoIter
               /\ loc' = NoLoc
               /\ registered_agents' = Compact(d)
               /\ tick' = [NoTick EXCEPT !.failed = tk.failed,
                                         !.fetched = tk.fetched]

\* the largest six-digit decimal not above the double x
FloorMicros(x) ==
    LET sec == x \div UlpsPerSec
        r   == x % UlpsPerSec
    IN  sec * MicrosPerSec + (r \div 65536) * 15625 + ((r % 65536) * 15625) \div 65536

\* the timestamp ts is later than the instant x (a decimal exceeds a real
\* number exactly when it exceeds the largest decimal not above it)
LaterThan(ts, x) == ts > FloorMicros(x)

\* await asyncio.sleep(5) returned: a tick begins
WakeAndStart ==
    /\ pc = "sleep"
    /\ UNCHANGED <<now, server, outgoing, cache, client, channel, reply>>
    /\ IF registered_agents = << >>
       THEN \* if not self.registered_agents: continue
            /\ tick' = NoTick
            /\ UNCHANGED <<registered_agents, pc, it, loc, sent, hist>>
       ELSE RunOn(registered_agents,
                  [used |-> Used(registered_agents), pos |-> 1,
                   len |-> Used(registered_agents)],
                  hist,
                  [NoTick EXCEPT !.regs = Keys(registered_agents)])

\* variant: the loop has no outer except clause, the exception ends the task
RetryWakeEnds ==
    /\ pc = "retry_sleep"
    /\ pc' = "ended"
    /\ UNCHANGED <<now, server, outgoing, cache, client, channel, registered_agents, it, loc, sent, reply, hist, tick>>

\* the sleep of the outer except clause returned: back to the top of the loop
RetryWake ==
    /\ pc = "retry_sleep"
    /\ pc' = "sleep"
    /\ UNCHANGED <<now, server, outgoing, cache, client, channel, registered_agents, it, loc, sent, reply, hist, tick>>

\* the loop body for loc.agent_color ends: the watermark write, then the loop
\* runs on to its next await
EndBody(messages, h, tk) ==
    RunOn(WriteWatermark(registered_agents, loc.agent_color,
                         loc.agent_last_timestamp, messages),
          it, h, tk)

\* variant: the notification is skipped
ShouldNotifyNever(relevant_messages) == FALSE

\* variant: the notification is sent for every fetched batch
ShouldNotifyAlways(relevant_messages) == TRUE

\* the condition `if relevant_messages:' guarding the batch notification
ShouldNotify(relevant_messages) == relevant_messages # << >>

\* the batch the loop body for agent c passes to the filter, and its result
Relevant(c, messages) ==
    IF messages = << >> THEN << >>
    ELSE filter_relevant_messages_for_agent(
             messages, ColorChars(c), TRUE, BotUserId(c), << >>, << >>)

\* history: the largest timestamp seen
SeenMax(old, messages) ==
    IF messages = << >> THEN old ELSE Max({old} \cup Timestamps(messages))

\* outcomes of a request to the callback: HTTP 200, HTTP 500, exception (0)
Statuses == {200, 500, 0}

\* a request not answered yet
Waiting == -1

\* get_messages answered
FetchOk ==
    /\ pc = "fetch"
    /\ UNCHANGED <<now, server, outgoing, cache, client, channel, reply>>
    /\ LET c        == loc.agent_color
           messages == get_messages(MonitorLimit, loc.agent_last_timestamp)
           relevant_messages == Relevant(c, messages)
           h1 == [hist EXCEPT ![c].maxseen = SeenMax(@, messages),
                              ![c].tried = TRUE]
           tk1 == [tick EXCEPT !.fetched =
                       @ \cup {[color |-> c, messages |-> messages]}]
       IN  IF messages # << >> /\ ShouldNotify(relevant_messages)
           THEN \* await self._notify_agent_batch(...): POST /tui/append-prompt
                /\ pc' = "append"
                /\ loc' = [loc EXCEPT !.messages = messages,
                                      !.relevant_messages = relevant_messages,
                                      !.calls = @ + 1]
                /\ sent' = << [call |-> "append", port |-> loc.opencode_port,
                               status |-> Waiting] >>
                /\ hist' = h1
                /\ tick' = tk1
                /\ UNCHANGED <<registered_agents, it>>
           ELSE EndBody(messages, h1, tk1)

\* variant: the loop body has no except clause, the error reaches the outer one
FetchFailEscapes ==
    /\ pc = "fetch"
    /\ pc' = "retry_sleep"
    /\ it' = NoIter
    /\ loc' = NoLoc
    /\ sent' = << >>
    /\ registered_agents' = Compact(registered_agents)
    /\ hist' = [hist EXCEPT ![loc.agent_color].tried = TRUE]
    /\ tick' = [NoTick EXCEPT !.failed = tick.failed \cup {loc.agent_color},
                              !.fetched = tick.fetched]
    /\ UNCHANGED <<now, server, outgoing, cache, client, channel, reply>>

\* get_messages raised (platform error, transport error): the except clause
\* of the loop body logs it
FetchFail ==
    /\ pc = "fetch"
    /\ UNCHANGED <<now, server, outgoing, cache, client, channel, reply>>
    /\ RunOn(registered_agents, it,
             [hist EXCEPT ![loc.agent_color].tried = TRUE],
             [tick EXCEPT !.failed = @ \cup {loc.agent_color}])

\* _notify_agent_batch returned (it catches every exception itself)
Returned == EndBody(loc.messages, hist, tick)

\* the pending request was answered with status, and the next one is posted
PostNext(status, call) ==
    /\ pc' = call
    /\ sent' = Append([sent EXCEPT ![Len(sent)].status = status],
                      [call |-> call, port |-> loc.opencode_port,
                       status |-> Waiting])
    /\ UNCHANGED <<registered_agents, it, loc, hist, tick>>

\* the answer to POST /tui/append-prompt: 200, another status, or an exception
AppendResponse(status) ==
    /\ pc = "append"
    /\ UNCHANGED <<now, server, outgoing, cache, client, channel, reply>>
    /\ CASE status = 200 -> PostNext(status, "submit")
         [] status = 500 -> PostNext(status, "toast")
         [] OTHER -> Returned

\* variant: the toast follows every answered submit call
SubmitResponseToast(status) ==
    /\ pc = "submit"
    /\ UNCHANGED <<now, server, outgoing, cache, client, channel, reply>>
    /\ CASE status = 0 -> Returned
         [] OTHER -> PostNext(status, "toast")

\* the answer to POST /tui/submit-prompt
SubmitResponse(status) ==
    /\ pc = "submit"
    /\ UNCHANGED <<now, server, outgoing, cache, client, channel, reply>>
    /\ CASE status = 200 -> Returned
         [] status = 500 -> PostNext(status, "toast")
         [] OTHER -> Returned

\* the answer to POST /tui/show-toast
ToastResponse(status) ==
    /\ pc = "toast"
    /\ UNCHANGED <<now, server, outgoing, cache, client, channel, reply>>
    /\ Returned

----------------------------------------------------------------------------
(* Specification *)

NewMessage == \E m \in MessageInputs : PostMessage(m)
Register ==
    \E call \in OwnPort : register_agent(call[1], call[2]) /\ reply' = reply
Unregister ==
    \E t \in Tokens : unregister_agent(t) /\ reply' = reply
AppendAnswered == \E status \in Statuses : AppendResponse(status)
SubmitAnswered == \E status \in Statuses : SubmitResponse(status)
ToastAnswered == \E status \in Statuses : ToastResponse(status)

Next ==
    \/ AdvanceClock
    \/ NewMessage
    \/ Register
    \/ Unregister
    \/ WakeAndStart
    \/ RetryWake
    \/ FetchOk
    \/ FetchFail
    \/ AppendAnswered
    \/ SubmitAnswered
    \/ ToastAnswered

Spec == Init /\ [][Next]_vars

\* the gateway with its answers observed, on a quiet channel
RegisterCall ==
    \E t \in Tokens, p \in PortInputs :
        /\ register_agent(t, p)
        /\ reply' = [NoReply EXCEPT
                        !.name = "register", !.color = t, !.port = p,
                        !.error = RegisterError(t, p),
                        !.success = RegisterError(t, p) = "",
                        !.http = IF RegisterError(t, p) = "" THEN 200 ELSE 500,
                        !.seq = 1 - reply.seq]
UnregisterCall ==
    \E t \in Tokens :
        /\ unregister_agent(t)
        /\ reply' = [NoReply EXCEPT
                        !.name = "unregister", !.color = t,
                        !.error = UnregisterError(t),
                        !.success = t \in Keys(registered_agents),
                        !.http = IF UnregisterError(t) = "" THEN 200 ELSE 500,
                        !.seq = 1 - reply.seq]

NextGateway ==
    \/ AdvanceClock
    \/ RegisterCall
    \/ UnregisterCall
    \/ WakeAndStart
    \/ RetryWake
    \/ FetchOk
    \/ FetchFail

SpecGateway == Init /\ [][NextGateway]_vars

----------------------------------------------------------------------------
(* The daemon on a channel that carries team-wide alerts *)

\* a user's alert to the whole channel
TeamMessage ==
    [user_id |-> HumanUser,
     text |-> <<"@", "c", "h", "a", "n", "n", "e", "l", " ",
                "s", "e", "r", "v", "e", "r", " ", "d", "o", "w", "n">>,
     reactions |-> << >>, hidden |-> FALSE]

NewTeamMessage == PostMessage(TeamMessage)

NextTeam ==
    \/ AdvanceClock
    \/ NewTeamMessage
    \/ Register
    \/ WakeAndStart
    \/ RetryWake
    \/ FetchOk
    \/ FetchFail
    \/ AppendAnswered
    \/ SubmitAnswered
    \/ ToastAnswered

SpecTeam == Init /\ [][NextTeam]_vars

----------------------------------------------------------------------------
(* Gateway reads: get_relevant_messages, get_messages, list_agents *)

\* SlackDaemon.get_agent_by_identifier: the color, "" for None (the
\* configuration has no backwards_compatibility mapping)
get_agent_by_identifier(identifier) ==
    IF identifier \in AgentConfigs THEN identifier ELSE ""

\* next(iter(self.slack_clients.values())): the client created first
FirstClient == "red"

\* get_slack_client: the color whose client is used
get_slack_client(agent_identifier) ==
    LET color == get_agent_by_identifier(agent_identifier)
    IN  IF color # "" /\ color \in SlackClients THEN color ELSE FirstClient

Min(a, b) == IF a < b THEN a ELSE b

\* variant: the read advances the watermark to the newest message it returns
AfterReadAdvance(d, color, messages) == WriteWatermark(d, color, NoTs, messages)

\* the registry after get_relevant_messages: the handler writes nothing
\* ("Don't update timestamp here - only monitoring loop should update it")
AfterRead(d, color, messages) == d

\* the since_timestamp get_relevant_messages passes to get_messages
SinceUsed(agent_identifier, since_timestamp) ==
    LET color == get_agent_by_identifier(agent_identifier)
        agent_since_timestamp ==
            IF color # "" /\ color \in Keys(registered_agents)
            THEN Get(registered_agents, color).last_message_timestamp
            ELSE NoTs
    IN  IF agent_since_timestamp # NoTs /\ since_timestamp = NoTs
        THEN agent_since_timestamp
        ELSE since_timestamp

\* what get_relevant_messages returns when get_messages answers
RelevantResult(agent_identifier, limit, since_timestamp, exclude_reacted) ==
    LET color == get_agent_by_identifier(agent_identifier)
        bot_user_id == IF color # "" THEN BotUserId(color) ELSE << >>
        since == SinceUsed(agent_identifier, since_timestamp)
        messages == get_messages(Min(limit * 3, 200), since)
        relevant_messages ==
            filter_relevant_messages_for_agent(
                messages, ColorChars(agent_identifier), exclude_reacted,
                bot_user_id, << >>, << >>)
    IN  [messages |-> SubSeq(relevant_messages, 1, Min(limit, Len(relevant_messages))),
         since_timestamp |-> since]

\* GET /get_relevant_messages: the handler and get_relevant_messages; ok
\* tells whether the platform answered the fetch
get_relevant_messages(agent_color, limit, since_timestamp, exclude_reacted, ok) ==
    /\ reply' =
          LET call == [NoReply EXCEPT !.name = "get_relevant_messages",
                                      !.color = agent_color, !.limit = limit,
                                      !.since_timestamp = since_timestamp,
                                      !.exclude_reacted = exclude_reacted,
                                      !.seq = 1 - reply.seq]
          IN  IF agent_color = ""
              THEN [call EXCEPT !.http = 400, !.success = FALSE,
                                !.error = "agent_color parameter is required"]
              ELSE IF ~ok
              THEN [call EXCEPT !.http = 500, !.success = FALSE,
                                !.error = "Slack API error",
                                !.via = get_slack_client(agent_color)]
              ELSE [call EXCEPT !.result =
                        RelevantResult(agent_color, limit, since_timestamp,
                                       exclude_reacted),
                                !.via = get_slack_client(agent_color)]
    /\ registered_agents' =
          IF agent_color # "" /\ ok
          THEN AfterRead(registered_agents, get_agent_by_identifier(agent_color),
                         RelevantResult(agent_color, limit, since_timestamp,
                                        exclude_reacted).messages)
          ELSE registered_agents
    /\ UNCHANGED <<now, server, outgoing, cache, client, channel, pc, it, loc, sent, hist, tick>>

\* GET /get_messages: the raw history
get_messages_handler(agent_color, limit, since_timestamp, ok) ==
    /\ reply' =
          LET call == [NoReply EXCEPT !.name = "get_messages",
                                      !.color = agent_color, !.limit = limit,
                                      !.since_timestamp = since_timestamp,
                                      !.seq = 1 - reply.seq]
          IN  IF ~ok
              THEN [call EXCEPT !.http = 500, !.success = FALSE,
                                !.error = "Slack API error",
                                !.via = get_slack_client(agent_color)]
              ELSE [call EXCEPT !.result =
                        [messages |-> get_messages(limit, since_timestamp),
                         since_timestamp |-> since_timestamp],
                                !.via = get_slack_client(agent_color)]
    /\ UNCHANGED <<now, server, outgoing, cache, client, channel, registered_agents, pc, it, loc, sent, hist, tick>>

\* GET /list_agents: total_count is kept in limit
list_agents ==
    /\ reply' = [NoReply EXCEPT !.name = "list_agents",
                                !.limit = Cardinality(Keys(registered_agents)),
                                !.seq = 1 - reply.seq]
    /\ UNCHANGED <<now, server, outgoing, cache, client, channel, registered_agents, pc, it, loc, sent, hist, tick>>

\* the read requests agents send: [agent_color, limit, since_timestamp]
ReadInputs ==
    { <<"red", 50, NoTs>>, <<"red", 1, 0>>, <<"pink", 50, NoTs>>, <<"", 50, NoTs>> }

GetRelevantCall ==
    \E r \in ReadInputs, ok \in BOOLEAN :
        get_relevant_messages(r[1], r[2], r[3], TRUE, ok)
GetMessagesCall ==
    \E r \in {x \in ReadInputs : x[1] = "pink"}, ok \in BOOLEAN :
        get_messages_handler(r[1], r[2], r[3], ok)
ListAgentsCall == list_agents

\* no gateway call has been observed yet
Unobserved == reply = NoReply

\* the daemon runs with its gateway reads unobserved, and one read is observed
\* at the end of the run (a read changes nothing but its own answer)
NextReads ==
    \/ Unobserved /\ AdvanceClock
    \/ Unobserved /\ NewMessage
    \/ Unobserved /\ Register
    \/ Unobserved /\ WakeAndStart
    \/ Unobserved /\ RetryWake
    \/ Unobserved /\ FetchOk
    \/ Unobserved /\ FetchFail
    \/ Unobserved /\ AppendAnswered
    \/ Unobserved /\ SubmitAnswered
    \/ Unobserved /\ ToastAnswered
    \/ Unobserved /\ GetRelevantCall
    \/ Unobserved /\ GetMessagesCall
    \/ Unobserved /\ ListAgentsCall

SpecReads == Init /\ [][NextReads]_vars

TypeOK ==
    /\ pc \in {"sleep", "retry_sleep", "fetch", "append", "submit", "toast"}
    /\ tick.races <= MaxRaces
    /\ Cardinality(channel) <= MaxMsgs

----------------------------------------------------------------------------
(* Properties *)

Registered(c) ==
    \E i \in 1..Len(registered_agents) : registered_agents[i].color = c
Entry(c) == Get(registered_agents, c)
\* the watermark: the entry's last_message_timestamp
Watermark(c) == Entry(c).last_message_timestamp

\* this step ends the loop body that was suspended
BodyEnds == IterLive /\ (it' # it \/ pc' \notin LiveStates)

\* this step is get_messages returning to the loop body for c
FetchAnswered(c) ==
    pc = "fetch" /\ loc.agent_color = c /\ tick'.fetched # tick.fetched

\* the batch it returned, which the loop body passes to the filter
Batch == (CHOOSE f \in tick'.fetched \ tick.fetched : TRUE).messages

\* this step is get_messages raising in the loop body for c
FetchRaised(c) ==
    pc = "fetch" /\ loc.agent_color = c /\ tick'.failed # tick.failed

\* c is registered, no register call for c arrived while its loop body was
\* suspended, and its loop body is not suspended now
Settled(c) == Registered(c) /\ hist[c].clean /\ ~InFlight(c)

\* c stays registered through this step and the step is no register call
\* that follows a fetch for c
SameRegistration(c) ==
    /\ hist[c].clean /\ hist'[c].clean
    /\ hist[c].tried => hist'[c].tried
    /\ Registered(c) /\ Registered(c)'

\* the largest of c's initial watermark and the timestamps fetched for c
FetchedMax(c) == Max({Fmt6(Entry(c).last_seen - Sec5), hist[c].maxseen})

\* C1: while an agent is not re-registered its watermark never decreases
\* from one step of a tick to the next, and whenever its loop body is not
\* suspended the watermark equals the largest timestamp among all messages
\* fetched for it since its registration, or its initial value when nothing
\* was fetched.
C1_WatermarkIsMaxFetched ==
    /\ [](\A c \in AgentConfigs : Settled(c) => Watermark(c) = FetchedMax(c))
    /\ [][\A c \in AgentConfigs :
             SameRegistration(c) => Watermark(c)' >= Watermark(c)]_vars

\* C1 witness: red registered at the first clock value, both messages were
\* fetched for it and its watermark is the timestamp of the later one.
C1_Witness ==
    /\ pc = "sleep"
    /\ Settled("red")
    /\ Entry("red").last_seen = Sec5
    /\ Cardinality({m \in channel : ~m.hidden}) = 2
    /\ hist["red"].maxseen = Fmt6(Sec5 + ClockStep)
    /\ Watermark("red") = Fmt6(Sec5 + ClockStep)

\* a step of the monitoring task changes c's watermark
WatermarkWritten(c) ==
    /\ pc' # pc \/ it' # it
    /\ Registered(c) /\ Registered(c)'
    /\ Watermark(c)' # Watermark(c)

\* C2: the monitoring task writes an agent's watermark only in the step that
\* ends the agent's loop body: directly after a fetch whose batch the filter
\* found no relevant message in, or when the one batch dispatch the body
\* started has returned; never in a step that starts or continues a dispatch.
C2_WriteAfterFilterAndDispatch ==
    [][\A c \in AgentConfigs :
          WatermarkWritten(c) =>
              /\ InFlight(c)
              /\ BodyEnds
              /\ pc = "fetch" => FetchAnswered(c) /\ Relevant(c, Batch) = << >>
              /\ pc # "fetch" => loc.calls = 1 /\ sent[Len(sent)].status = Waiting]_vars

\* C2 witness: an agent's watermark is the timestamp of a message that is
\* relevant to it, so it was written after that message's dispatch returned.
C2_Witness ==
    \E c \in AgentConfigs :
        /\ Registered(c)
        /\ ~InFlight(c)
        /\ \E m \in channel :
              /\ ~m.hidden
              /\ m.timestamp = Watermark(c)
              /\ IsRelevant(m, ColorChars(c), TRUE, BotUserId(c), << >>, << >>)

\* C3 (as the spec states it): when the append request of a batch dispatch
\* raises (the callback endpoint is unreachable, so nothing is delivered and
\* no toast is sent), the step that ends the loop body leaves the watermark
\* below the timestamp of every relevant message of the batch.
C3_NoDropOnDispatchFailure ==
    [][\A c \in AgentConfigs :
          (InFlight(c) /\ pc = "append" /\ BodyEnds /\ Registered(c)') =>
              \A i \in 1..Len(loc.relevant_messages) :
                  Watermark(c)' < loc.relevant_messages[i].timestamp]_vars

\* C4: when get_messages returns a batch to an agent's loop body, the body
\* starts exactly one batch dispatch carrying all relevant messages of the
\* batch if there is at least one, and ends without any dispatch otherwise;
\* a body never starts a second dispatch.
C4_OneNotificationPerBatch ==
    /\ [][\A c \in AgentConfigs :
             FetchAnswered(c) =>
                /\ loc.calls = 0
                /\ IF Relevant(c, Batch) # << >>
                   THEN /\ pc' = "append"
                        /\ loc'.agent_color = c
                        /\ loc'.calls = 1
                        /\ loc'.relevant_messages = Relevant(c, Batch)
                        /\ sent' = << [call |-> "append",
                                       port |-> loc.opencode_port,
                                       status |-> Waiting] >>
                   ELSE BodyEnds]_vars
    /\ [](/\ pc \in {"append", "submit", "toast"} => loc.calls = 1
          /\ pc = "fetch" => loc.calls = 0)

\* C4 witness: one dispatch is pending that carries both relevant messages
\* of a batch.
C4_Witness ==
    /\ pc = "append"
    /\ loc.calls = 1
    /\ Len(loc.relevant_messages) = 2
    /\ Len(sent) = 1

\* C5: when the fetch for one agent raises, the registry (every watermark)
\* is left as it was, and unless a register or unregister call changed the
\* registry during the tick, the tick is not aborted and goes on with the
\* next agent it has not fetched for yet; a tick that no such call
\* interfered with ends only after a fetch was issued for every agent
\* registered when it began.
C5_FetchFailureIsolated ==
    [][/\ \A c \in AgentConfigs :
            FetchRaised(c) =>
                /\ Compact(registered_agents') = Compact(registered_agents)
                /\ tick.races = 0 =>
                      /\ pc' # "retry_sleep"
                      /\ tick.regs \ tick.attempted # {} =>
                            /\ pc' = "fetch"
                            /\ loc'.agent_color \in tick.regs \ tick.attempted
       /\ (IterLive /\ pc' \notin LiveStates /\ tick.races = 0) =>
              /\ pc' = "sleep"
              /\ tick.regs \subseteq tick.attempted]_vars

\* C5 witness: the fetch for one agent raised and the tick is now suspended
\* in the fetch for another agent.
C5_Witness ==
    /\ pc = "fetch"
    /\ tick.races = 0
    /\ tick.failed # {}
    /\ loc.agent_color \notin tick.failed

\* C6 (as the spec states it): a tick is never aborted, and when it ends a
\* fetch was issued for every agent that was registered when it began and
\* still is.
C6_NoAbortOnRegistryChange ==
    [][IterLive =>
          /\ pc' # "retry_sleep"
          /\ pc' = "sleep" =>
                (tick.regs \cap Keys(registered_agents')) \subseteq tick.attempted]_vars

\* C7 (as the spec states it): while a token stays registered its watermark
\* never decreases, whatever the step.
C7_WatermarkNeverDecreases ==
    [][\A c \in AgentConfigs :
          (Registered(c) /\ Registered(c)') => Watermark(c)' >= Watermark(c)]_vars

\* this step is a register call for c
RegisterStep(c) ==
    /\ pc' = pc /\ it' = it
    /\ Entry(c)'.last_seen = now
    /\ ~hist'[c].tried

\* this step ends a loop body for c that was suspended when a register call
\* for c arrived, and writes the largest timestamp of the body's batch
StaleWrite(c) ==
    /\ ~hist[c].clean /\ InFlight(c) /\ BodyEnds
    /\ IF pc = "fetch"
       THEN FetchAnswered(c) /\ Watermark(c)' \in Timestamps(Batch)
       ELSE Watermark(c)' \in Timestamps(loc.messages)

\* C7 (amended): while a token stays registered its watermark decreases only
\* in a register call for the token, which sets it to the time of the call
\* minus 5 seconds, or in the step that ends a loop body of the token that
\* was suspended when such a call arrived, which sets it to the largest
\* timestamp of the batch that body fetched; no other step decreases it.
C7_DecreasesOnlyAfterRegister ==
    [][\A c \in AgentConfigs :
          (Registered(c) /\ Registered(c)') =>
              \/ Watermark(c)' >= Watermark(c)
              \/ RegisterStep(c) /\ Watermark(c)' = Fmt6(now - Sec5)
              \/ StaleWrite(c)]_vars

\* C7 witness: an agent re-registered while its loop body was suspended, and
\* that body has since written a watermark below the one the call stored.
C7_Witness ==
    \E c \in AgentConfigs :
        /\ Registered(c)
        /\ ~hist[c].clean
        /\ ~InFlight(c)
        /\ Watermark(c) < Fmt6(Entry(c).last_seen - Sec5)

\* this step is a gateway call with the given name
Called(name) == reply'.seq # reply.seq /\ reply'.name = name

\* C8: a register call whose token is no key of the agent configuration is
\* answered with an error (the unknown-agent error when token and port are
\* present) and leaves the registry exactly as it was.
C8_UnknownTokenRejected ==
    [][(Called("register") /\ reply'.color \notin AgentConfigs) =>
          /\ ~reply'.success
          /\ reply'.error # ""
          /\ (reply'.color # "" /\ reply'.port # 0) =>
                reply'.error = "Unknown agent color"
          /\ registered_agents' = registered_agents]_vars

\* C8 witness: a register call for the unconfigured token pink was answered
\* with the unknown-agent error while two agents were registered.
C8_Witness ==
    /\ reply.name = "register"
    /\ reply.color = "pink"
    /\ reply.error = "Unknown agent color"
    /\ Keys(registered_agents) = {"red", "blue"}

\* at most one entry per token, and only configured tokens
ShapeOK(d) ==
    /\ \A i, j \in 1..Len(d) :
          (i # j /\ d[i] # Dummy /\ d[j] # Dummy) => d[i].color # d[j].color
    /\ Keys(d) \subseteq AgentConfigs

\* C9: the registry always holds at most one entry per token and only
\* configured tokens; after a register call succeeded the entry of its token
\* carries exactly the port of the call, and every other token is registered
\* exactly if it was before, with its entry unchanged.
C9_RegistryShape ==
    /\ []ShapeOK(registered_agents)
    /\ [][(Called("register") /\ reply'.success) =>
              /\ reply'.color \in Keys(registered_agents')
              /\ Get(registered_agents', reply'.color).opencode_port = reply'.port
              /\ \A d \in Tokens \ {reply'.color} :
                    /\ d \in Keys(registered_agents') <=> d \in Keys(registered_agents)
                    /\ d \in Keys(registered_agents) =>
                          Get(registered_agents', d) = Get(registered_agents, d)]_vars

\* C9 witness: red re-registered with another port after blue registered:
\* red's slot in the registry precedes blue's, its entry is the later one
\* and carries the port of the last call.
C9_Witness ==
    /\ reply.name = "register"
    /\ reply.success
    /\ reply.color = "red"
    /\ reply.port = 4002
    /\ Keys(registered_agents) = {"red", "blue"}
    /\ IndexOf(registered_agents, "red") < IndexOf(registered_agents, "blue")
    /\ Entry("red").last_seen > Entry("blue").last_seen
    /\ Entry("red").opencode_port = 4002

\* the first fetch for c since its registration is pending, and the
\* registration did not arrive while a loop body for c was suspended
FirstFetch(c) ==
    /\ pc = "fetch" /\ loc.agent_color = c
    /\ Registered(c)
    /\ hist[c].clean
    /\ ~hist[c].tried

Window(t) == {m.timestamp : m \in {x \in channel : ~x.hidden /\ x.timestamp > t}}

C11_UnregisterFrame ==
    [][(Called("unregister") /\ reply'.color # "") =>
          IF reply'.color \in Keys(registered_agents)
          THEN /\ reply'.success
               /\ reply'.error = ""
               /\ reply'.color \notin Keys(registered_agents')
               /\ \A d \in Tokens \ {reply'.color} :
                     /\ d \in Keys(registered_agents') <=> d \in Keys(registered_agents)
                     /\ d \in Keys(registered_agents) =>
                           Get(registered_agents', d) = Get(registered_agents, d)
          ELSE /\ ~reply'.success
               /\ reply'.error = ""
               /\ registered_agents' = registered_agents]_vars

\* C11 witness: red was unregistered while blue was registered, and blue's
\* entry is still there.
C11_Witness ==
    /\ reply.name = "unregister"
    /\ reply.success
    /\ reply.color = "red"
    /\ Keys(registered_agents) = {"blue"}

\* this step is a gateway read
ReadStep ==
    /\ reply'.seq # reply.seq
    /\ reply'.name \in {"get_relevant_messages", "get_messages", "list_agents"}

\* C12: a gateway read (get_relevant_messages, get_messages, list_agents)
\* leaves the registry exactly as it was: every registered agent's watermark,
\* port and last-seen, whether or not the read used the agent's watermark as
\* its since_timestamp and whatever its answer.
C12_ReadsLeaveRegistry ==
    [][ReadStep => registered_agents' = registered_agents]_vars

\* C12 witness: get_relevant_messages for red, called without a
\* since_timestamp, used red's watermark, returned a message, and red's
\* watermark is still older than that message.
C12_Witness ==
    /\ reply.name = "get_relevant_messages"
    /\ reply.color = "red"
    /\ reply.since_timestamp = NoTs
    /\ Registered("red")
    /\ reply.result.since_timestamp = Watermark("red")
    /\ reply.result.messages # << >>
    /\ reply.result.messages[1].timestamp > Watermark("red")

\* red registered, one message that is relevant to red was posted no earlier
\* than the registration, a tick has fetched it for red and has ended
ReadAfterTick ==
    /\ pc = "sleep"
    /\ Settled("red")
    /\ \E m \in channel :
          /\ channel = {m}
          /\ ~m.hidden
          /\ IsRelevant(m, ColorChars("red"), TRUE, BotUserId("red"), << >>, << >>)
          /\ m.timestamp >= Fmt6(Entry("red").last_seen)
          /\ hist["red"].maxseen = m.timestamp

\* C13 (as the spec states it): when red registered, a message mentioning
\* red arrived and the next tick has processed it, get_relevant_messages for
\* red without a since_timestamp returns exactly that message
\* (total_filtered = 1).
C13_ReadReturnsProcessedMessage ==
    [][(/\ ReadStep
        /\ reply'.name = "get_relevant_messages"
        /\ reply'.color = "red"
        /\ reply'.since_timestamp = NoTs
        /\ reply'.http = 200
        /\ ReadAfterTick) =>
          /\ Len(reply'.result.messages) = 1
          /\ \A m \in channel :
                reply'.result.messages[1].timestamp = m.timestamp]_vars

\* C14: the message "@channel server down", sent by a user, is relevant to
\* every configured agent although none is named "channel", and whenever
\* get_messages returns a batch to an agent's loop body on a channel of such
\* messages the body starts a dispatch to the agent's port that carries every
\* message of the batch.
C14_TeamAlertReachesEveryAgent ==
    /\ [](\A m \in channel : \A c \in AgentConfigs :
             m.text = TeamMessage.text =>
                 IsRelevant(m, ColorChars(c), TRUE, BotUserId(c), << >>, << >>))
    /\ [][\A c \in AgentConfigs :
             (FetchAnswered(c) /\ Batch # << >>) =>
                 /\ pc' = "append"
                 /\ loc'.relevant_messages = Batch
                 /\ sent' = << [call |-> "append", port |-> loc.opencode_port,
                                status |-> Waiting] >>]_vars

\* C14 witness: red has been notified of the alert and the dispatch of the
\* alert to blue is pending in the same tick.
C14_Witness ==
    /\ pc = "append"
    /\ loc.agent_color = "blue"
    /\ Len(loc.relevant_messages) = 1
    /\ loc.relevant_messages[1].text = TeamMessage.text
    /\ Registered("red")
    /\ Watermark("red") = loc.relevant_messages[1].timestamp

----------------------------------------------------------------------------
(* filter_relevant_messages_for_agent applied to a batch of messages *)

MaxBatch == 2

TextMention     == <<"@", "r", "e", "d", " ", "h", "i">>
TextLonger      == <<"@", "r", "e", "d", "t", "e", "a", "m">>
TextAgentLonger == <<"@", "a", "g", "e", "n", "t", "-", "r", "e", "d", "t", "e", "a", "m">>
TextTeam        == <<"@", "C", "H", "A", "N", "N", "E", "L", " ",
                     "@", "r", "e", "d", "t", "e", "a", "m">>
TextNative      == <<"<", "@", "U", "1", ">", " ", "@", "r", "e", "d", "t", "e", "a", "m">>
TextPlain       == <<"h", "e", "l", "l", "o">>
TextBoth        == <<"@", "r", "e", "d", "t", "e", "a", "m", " ", "@", "r", "e", "d">>
TextOther       == <<"@", "b", "l", "u", "e", " ", "h", "i">>

\* msg.get("text")
FilterTexts ==
    {TextMention, TextLonger, TextAgentLonger, TextTeam, TextNative, TextPlain,
     TextBoth, TextOther}

\* one reaction whose users are the bot user of red
ReactionOfRed == << [name |-> "eyes", users |-> {BotUserId("red")}] >>

\* the messages a batch is drawn from: sent by a user or by the bot user of
\* red, without reaction or with a reaction of the bot user of red
FilterPool ==
    { [user_id |-> u, text |-> t, reactions |-> r] :
        u \in {HumanUser, BotUserId("red")},
        t \in FilterTexts,
        r \in {<< >>, ReactionOfRed} }

\* a batch as get_messages builds it: every message has its own timestamp
Stamped(b) ==
    [i \in 1..Len(b) |->
        [timestamp |-> i, user_id |-> b[i].user_id, text |-> b[i].text,
         reactions |-> b[i].reactions]]

Batches == UNION { [1..n -> FilterPool] : n \in 0..MaxBatch }

\* the arguments of one call: messages in loc.messages, the agent in
\* loc.agent_color; pink is an agent without bot_user_id
InitFilter ==
    /\ now = Sec5
    /\ channel = {}
    /\ registered_agents = << >>
    /\ pc = "sleep"
    /\ it = NoIter
    /\ \E b \in Batches, c \in Tokens \ {""} :
           loc = [NoLoc EXCEPT !.agent_color = c, !.messages = Stamped(b)]
    /\ sent = << >>
    /\ reply = NoReply
    /\ hist = [c \in Tokens \ {""} |-> NoHist]
    /\ tick = NoTick
    /\ client = NoClient
    /\ cache = NoCache
    /\ server = NoServer
    /\ outgoing = NoOutgoing

\* relevant = filter_relevant_messages_for_agent(messages, agent_color,
\* exclude_reacted, bot_user_id); the returned list is kept in reply.result
ApplyFilter(exclude_reacted) ==
    /\ reply = NoReply
    /\ loc.agent_color # ""
    /\ reply' = [NoReply EXCEPT
                    !.name = "filter",
                    !.color = loc.agent_color,
                    !.exclude_reacted = exclude_reacted,
                    !.result = [messages |->
                                   filter_relevant_messages_for_agent(
                                       loc.messages, ColorChars(loc.agent_color),
                                       exclude_reacted, BotUserId(loc.agent_color),
                                       << >>, << >>),
                                since_timestamp |-> NoTs],
                    !.seq = 1]
    /\ UNCHANGED <<now, server, outgoing, cache, client, channel, registered_agents, pc, it, loc, sent, hist, tick>>

FilterDefault == ApplyFilter(TRUE)

FilterKeepReacted == ApplyFilter(FALSE)

NextFilter ==
    \/ FilterDefault
    \/ FilterKeepReacted

SpecFilter == InitFilter /\ [][NextFilter]_vars

\* the list one call returned
FilterResult == reply.result.messages

\* the call has returned for agent c
Filtered(c) == reply.name = "filter" /\ reply.color = c

\* message msg is among the returned ones
IsReturned(msg) == \E k \in 1..Len(FilterResult) : FilterResult[k] = msg

\* C15: no message whose sender is the filtering agent's bot user is
\* returned, whatever its text (team keyword and native mention included),
\* its reactions and the exclude_reacted flag.
C15_OwnMessagesExcluded ==
    \A c \in AgentConfigs :
        Filtered(c) =>
            \A i \in 1..Len(loc.messages) :
                loc.messages[i].user_id = BotUserId(c) => ~IsReturned(loc.messages[i])

\* C15 witness: red's own message with a team keyword is dropped while the
\* same text sent by a user is returned, reactions kept (exclude_reacted off).
C15_Witness ==
    /\ Filtered("red")
    /\ ~reply.exclude_reacted
    /\ Len(loc.messages) = 2
    /\ loc.messages[1].user_id = BotUserId("red")
    /\ loc.messages[1].text = TextTeam
    /\ loc.messages[2].user_id = HumanUser
    /\ loc.messages[2].text = TextTeam
    /\ FilterResult = << loc.messages[2] >>

\* the same message without its reactions
Unreacted(msg) == [msg EXCEPT !.reactions = << >>]

\* the decision for msg alone when agent c filters with flag exclude_reacted
Decision(msg, c, exclude_reacted) ==
    filter_relevant_messages_for_agent(<< msg >>, ColorChars(c), exclude_reacted,
                                       BotUserId(c), << >>, << >>) # << >>

\* C16: a message carrying a reaction of the filtering agent's bot user is
\* not returned when exclude_reacted is on; when it is off the message is
\* returned exactly if the same message without the reaction is (which does
\* not depend on the flag).
C16_ReactedExcludedOnlyOnRequest ==
    Filtered("red") =>
        \A i \in 1..Len(loc.messages) :
            loc.messages[i].reactions = ReactionOfRed =>
                IF reply.exclude_reacted
                THEN ~IsReturned(loc.messages[i])
                ELSE /\ IsReturned(loc.messages[i])
                          <=> Decision(Unreacted(loc.messages[i]), "red", FALSE)
                     /\ Decision(Unreacted(loc.messages[i]), "red", FALSE)
                          <=> Decision(Unreacted(loc.messages[i]), "red", TRUE)

\* C16 witness: with exclude_reacted off, a mention of red that red reacted
\* to is returned and a reacted message without mention is not.
C16_Witness ==
    /\ Filtered("red")
    /\ ~reply.exclude_reacted
    /\ Len(loc.messages) = 2
    /\ loc.messages[1].reactions = ReactionOfRed
    /\ loc.messages[1].text = TextMention
    /\ loc.messages[2].reactions = ReactionOfRed
    /\ loc.messages[2].text = TextPlain
    /\ FilterResult = << loc.messages[1] >>

\* msg is sent by the bot user of agent c
OwnMessage(msg, c) == c = "red" /\ msg.user_id = BotUserId("red")

\* msg carries a reaction of the bot user of agent c
ReactedBy(msg, c) == c = "red" /\ msg.reactions = ReactionOfRed

\* C17: a message not sent by the filtering agent and not excluded by the
\* reaction rule is returned whenever its text contains a team keyword in
\* any letter case, or the native mention of the agent's bot user, although
\* the only textual pattern occurring in it ("@red" in "@redteam") is
\* rejected by the false-positive guard.
C17_TeamAndNativeTakePrecedence ==
    \A c \in Tokens \ {""} :
        Filtered(c) =>
            \A i \in 1..Len(loc.messages) :
                ( /\ ~OwnMessage(loc.messages[i], c)
                  /\ ~(reply.exclude_reacted /\ ReactedBy(loc.messages[i], c))
                  /\ \/ loc.messages[i].text = TextTeam
                     \/ loc.messages[i].text = TextNative /\ c = "red" )
                => IsReturned(loc.messages[i])

\* C17 witness: red is returned an upper-case "@CHANNEL" message and a
\* native mention, both of which also contain "@redteam".
C17_Witness ==
    /\ Filtered("red")
    /\ reply.exclude_reacted
    /\ Len(loc.messages) = 2
    /\ loc.messages[1].text = TextTeam
    /\ loc.messages[2].text = TextNative
    /\ FilterResult = loc.messages

\* one round of the loop over detection_patterns sets message_matched
PatternMatches(pattern, text_lower) ==
    Contains(pattern, text_lower) /\ ~FalsePositive(pattern, text_lower)

\* the detection patterns of agent c
PatternsOf(c) == detection_patterns(ColorChars(c), << >>, << >>)

\* C18: for agent red, a message whose text is "@agent-redteam" does not
\* match the pattern "@red", nor any other pattern of red that begins with
\* "@": "@red" does not occur in the text and "@agent-red" occurs followed
\* by a letter.
C18_LongerMentionNoAtMatch ==
    Filtered("red") =>
        \A i \in 1..Len(loc.messages) :
            loc.messages[i].text = TextAgentLonger =>
                /\ ~PatternMatches(<<"@", "r", "e", "d">>, Lower(loc.messages[i].text))
                /\ \A k \in 1..Len(PatternsOf("red")) :
                       PatternsOf("red")[k][1] = "@" =>
                           ~PatternMatches(PatternsOf("red")[k],
                                           Lower(loc.messages[i].text))

\* C18 witness: the filter has run for red on a user's "@agent-redteam".
C18_Witness ==
    /\ Filtered("red")
    /\ reply.exclude_reacted
    /\ Len(loc.messages) = 1
    /\ loc.messages[1].text = TextAgentLonger
    /\ loc.messages[1].user_id = HumanUser
    /\ loc.messages[1].reactions = << >>

\* C19 as stated: for agent red, a user's message whose only agent
\* reference is a longer mention that begins with red's mention
\* ("@agent-redteam" or "@redteam"), without team keyword and without native
\* mention, is not returned.
C19_LongerMentionsDropped ==
    Filtered("red") =>
        \A i \in 1..Len(loc.messages) :
            loc.messages[i].text \in {TextLonger, TextAgentLonger}
                => ~IsReturned(loc.messages[i])

\* this step is one call of the filter
FilterStep == reply.name = "" /\ reply'.name = "filter"

\* C20: the list the filter returns is a subsequence of its input: every
\* returned message is an input message, returned messages are in input
\* order and none is returned twice (the positions of a batch are its
\* timestamps), a message is returned exactly if the filter returns it when
\* given that message alone, and the call leaves the input list as it was.
C20_ReturnsSubsequence ==
    /\ [](\A c \in Tokens \ {""} :
             Filtered(c) =>
                 /\ \A k \in 1..Len(FilterResult) :
                        \E i \in 1..Len(loc.messages) : FilterResult[k] = loc.messages[i]
                 /\ \A k, l \in 1..Len(FilterResult) :
                        k < l => FilterResult[k].timestamp < FilterResult[l].timestamp
                 /\ \A i \in 1..Len(loc.messages) :
                        IsReturned(loc.messages[i])
                            <=> Decision(loc.messages[i], c, reply.exclude_reacted))
    /\ [][FilterStep => loc'.messages = loc.messages]_vars

\* C20 witness: of two messages for red both are returned, in input order.
C20_Witness ==
    /\ Filtered("red")
    /\ Len(loc.messages) = 2
    /\ loc.messages[1].text = TextAgentLonger
    /\ loc.messages[2].text = TextMention
    /\ FilterResult = loc.messages

----------------------------------------------------------------------------
(* SlackAPIClient: _check_rate_limit, _wait_for_rate_limit, _make_request *)

MaxElapse == 4

\* minute_ago = now - 60
Minute == 60

\* asyncio.sleep(1)
SleepSeconds == 1

\* self.rate_limit, the "rate_limiting" section of the configuration
rate_limit == [messages_per_minute |-> 3, api_calls_per_minute |-> 1]

\* variant: expired entries stay in the window
PruneNone(history) == history

\* [t for t in history if t > minute_ago]
Prune(history) == SelectSeq(history, LAMBDA age : age < Minute)

\* variant: the window may grow to one entry more than the ceiling
FullOff(history, ceiling) == Len(history) > ceiling

\* len(history) >= ceiling
Full(history, ceiling) == Len(history) >= ceiling

\* variant: every endpoint type is counted in call_history
check_rate_limit_one(c, endpoint_type) ==
    LET history == Prune(c.call_history)
    IN  IF Full(history, rate_limit.api_calls_per_minute)
        THEN [admitted |-> FALSE, message_history |-> c.message_history,
              call_history |-> history]
        ELSE [admitted |-> TRUE, message_history |-> c.message_history,
              call_history |-> Append(history, 0)]

\* _check_rate_limit: the value returned and the two windows after the call
check_rate_limit(c, endpoint_type) ==
    IF endpoint_type = "message"
    THEN LET history == Prune(c.message_history)
         IN  IF Full(history, rate_limit.messages_per_minute)
             THEN [admitted |-> FALSE, message_history |-> history,
                   call_history |-> c.call_history]
             ELSE [admitted |-> TRUE, message_history |-> Append(history, 0),
                   call_history |-> c.call_history]
    ELSE LET history == Prune(c.call_history)
         IN  IF Full(history, rate_limit.api_calls_per_minute)
             THEN [admitted |-> FALSE, message_history |-> c.message_history,
                   call_history |-> history]
             ELSE [admitted |-> TRUE, message_history |-> c.message_history,
                   call_history |-> Append(history, 0)]

\* the category an endpoint type is counted in
Category(endpoint_type) == IF endpoint_type = "message" THEN "message" ELSE "api"

\* variant: a failed request is sent again
AfterErrorRetry(t) == [t EXCEPT !.posts = Min(2, @ + 1)]

\* `raise Exception(f"Slack API error: ...")': the call ends
AfterError(t) ==
    [IdleTask EXCEPT !.posts = t.posts,
                     !.outcome = "Slack API error: channel_not_found"]

\* one round of the loop of _wait_for_rate_limit for task k: when the check
\* admits the call the request is sent to the platform, otherwise the task
\* sleeps
WaitRound(k, endpoint_type, posts) ==
    LET r == check_rate_limit(client, endpoint_type)
        cat == Category(endpoint_type)
    IN  client' = [client EXCEPT
            !.message_history = r.message_history,
            !.call_history = r.call_history,
            !.log[cat] = IF r.admitted THEN Append(@, 0) ELSE @,
            !.task[k] = IF r.admitted
                        THEN [pc |-> "post", endpoint_type |-> endpoint_type,
                              wake |-> 0, posts |-> posts + 1, outcome |-> ""]
                        ELSE [pc |-> "sleep", endpoint_type |-> endpoint_type,
                              wake |-> SleepSeconds, posts |-> posts, outcome |-> ""]]

\* a task enters _make_request: the first check runs before it is suspended
make_request(k, endpoint_type) ==
    /\ client.task[k].pc = "idle"
    /\ WaitRound(k, endpoint_type, 0)
    /\ UNCHANGED <<now, server, outgoing, cache, channel, registered_agents, pc, it, loc, sent, reply, hist, tick>>

\* the sleep of task k is over: the next check
Retry(k) ==
    /\ client.task[k].pc = "sleep"
    /\ client.task[k].wake = 0
    /\ WaitRound(k, client.task[k].endpoint_type, client.task[k].posts)
    /\ UNCHANGED <<now, server, outgoing, cache, channel, registered_agents, pc, it, loc, sent, reply, hist, tick>>

\* the platform answers the request of task k; ok is result.get("ok")
Answer(k, ok) ==
    /\ client.task[k].pc = "post"
    /\ client' = [client EXCEPT
            !.task[k] = IF ok
                        THEN [IdleTask EXCEPT !.posts = client.task[k].posts,
                                              !.outcome = "ok"]
                        ELSE AfterError(client.task[k])]
    /\ UNCHANGED <<now, server, outgoing, cache, channel, registered_agents, pc, it, loc, sent, reply, hist, tick>>

\* ages after d more seconds
Aged(history, d) == [i \in 1..Len(history) |-> Min(history[i] + d, Minute)]

\* d seconds pass
Pass(d, count) ==
    /\ client' = [client EXCEPT
            !.message_history = Aged(@, d),
            !.call_history = Aged(@, d),
            !.log = [cat \in DOMAIN @ |->
                        SelectSeq(Aged(@[cat], d), LAMBDA age : age < Minute)],
            !.task = [k \in TaskIds |->
                         [@[k] EXCEPT !.wake = IF @ > d THEN @ - d ELSE 0]],
            !.elapsed = @ + count]
    /\ UNCHANGED <<now, server, outgoing, cache, channel, registered_agents, pc, it, loc, sent, reply, hist, tick>>

SendOrCall == \E k \in TaskIds, e \in {"message", "api"} : make_request(k, e)

RetryStep == \E k \in TaskIds : Retry(k)

AnswerStep == \E k \in TaskIds, ok \in BOOLEAN : Answer(k, ok)

\* the clock is observed after one second or after 58 seconds
Elapse == client.elapsed < MaxElapse /\ \E d \in {1, 58} : Pass(d, 1)

NextLimiter ==
    \/ SendOrCall
    \/ RetryStep
    \/ AnswerStep
    \/ Elapse

SpecLimiter == Init /\ [][NextLimiter]_vars

\* the configured ceiling of a category
Ceiling(cat) ==
    IF cat = "message" THEN rate_limit.messages_per_minute
    ELSE rate_limit.api_calls_per_minute

\* C21: in every reachable state and for each category, the number of
\* admitted calls whose admission lies less than 60 seconds back is at most
\* the ceiling of the category.
C21_RollingCap ==
    \A cat \in {"message", "api"} : Len(client.log[cat]) <= Ceiling(cat)

\* C21 witness: three message calls were admitted within the last minute, the
\* oldest 59 seconds ago, and a further message call is waiting.
C21_Witness ==
    /\ Len(client.log.message) = rate_limit.messages_per_minute
    /\ client.log.message[1] = 59
    /\ \E k \in TaskIds :
          client.task[k].pc = "sleep" /\ client.task[k].endpoint_type = "message"

\* this step is one check of _wait_for_rate_limit by task k
CheckStep(k) ==
    /\ client.task[k].pc \in {"idle", "sleep"}
    /\ \/ client'.task[k].pc = "post"
       \/ /\ client'.task[k].pc = "sleep"
          /\ client'.task[k].wake = SleepSeconds
          /\ client.task[k].pc = "idle" \/ client.task[k].wake = 0

\* C22: with a ceiling of 3 message calls per minute, a check admits a
\* message call exactly if fewer than 3 message calls were admitted less than
\* 60 seconds before it: after three calls admitted at one instant a fourth
\* call is refused at every check before their 60 seconds are over and is
\* admitted at its first check after that.
C22_FourthCallWaitsForWindow ==
    [][\A k \in TaskIds :
          (CheckStep(k) /\ client'.task[k].endpoint_type = "message") =>
              (client'.task[k].pc = "post" <=> Len(client.log.message) < 3)]_vars

\* C22 witness: three message calls were admitted at one instant 60 seconds
\* ago, and the fourth, refused so far, has slept and is about to retry.
C22_Witness ==
    /\ rate_limit.messages_per_minute = 3
    /\ client.message_history = << Minute, Minute, Minute >>
    /\ client.log.message = << >>
    /\ \E k \in TaskIds :
          /\ client.task[k].pc = "sleep"
          /\ client.task[k].endpoint_type = "message"
          /\ client.task[k].wake = 0

\* the entries of a window that are less than 60 seconds old
Unexpired(history) == SelectSeq(history, LAMBDA age : age < Minute)

\* the window of a category
HistoryOf(c, cat) == IF cat = "message" THEN c.message_history ELSE c.call_history

\* the other category
Other(cat) == IF cat = "message" THEN "api" ELSE "message"

\* C23: a check that returns False adds no timestamp to either window (its
\* own window keeps exactly its unexpired entries), a check that returns
\* True adds exactly one timestamp, the present time, to the window of its
\* own category, and in both cases the window of the other category is left
\* as it was.
C23_RecordsOnlyWhenAdmitted ==
    [][\A k \in TaskIds :
          CheckStep(k) =>
              LET cat == Category(client'.task[k].endpoint_type)
              IN  /\ HistoryOf(client', Other(cat)) = HistoryOf(client, Other(cat))
                  /\ HistoryOf(client', cat) =
                         IF client'.task[k].pc = "post"
                         THEN Append(Unexpired(HistoryOf(client, cat)), 0)
                         ELSE Unexpired(HistoryOf(client, cat))]_vars

\* C23 witness: an api call has just been refused; the api window holds the
\* one call admitted 59 seconds ago and the message window still holds its
\* expired entry.
C23_Witness ==
    /\ client.call_history = << 59 >>
    /\ client.message_history = << Minute >>
    /\ \E k \in TaskIds :
          /\ client.task[k].pc = "sleep"
          /\ client.task[k].endpoint_type = "api"
          /\ client.task[k].wake = SleepSeconds

----------------------------------------------------------------------------
(* Tasks that wait for admission in one category while time goes on *)

CallApi == \E k \in TaskIds : make_request(k, "api")

\* one more second on the clock; a task whose sleep is over has run before
SecondPasses ==
    /\ \A k \in TaskIds : ~(client.task[k].pc = "sleep" /\ client.task[k].wake = 0)
    /\ Pass(1, 0)

NextWaiting ==
    \/ CallApi
    \/ RetryStep
    \/ AnswerStep
    \/ SecondPasses

\* the clock keeps advancing, a task whose sleep is over runs, and every
\* request is answered; nothing obliges a task to call
SpecWaiting ==
    /\ Init
    /\ [][NextWaiting]_vars
    /\ WF_vars(SecondPasses)
    /\ \A k \in TaskIds : WF_vars(Retry(k))
    /\ \A k \in TaskIds : WF_vars(\E ok \in BOOLEAN : Answer(k, ok))

\* C24 as stated: every task suspended in _wait_for_rate_limit is
\* eventually admitted, also while the other task keeps calling in the same
\* category.
C24_WaiterEventuallyAdmitted ==
    \A k \in TaskIds :
        (client.task[k].pc = "sleep") ~> (client.task[k].pc = "post")

\* C25: one call of send_message (or of any other client method) sends at
\* most one request to the platform: none while it waits for admission, one
\* when it is admitted; when the platform answers, with success or with an
\* error, the call ends, an error as an exception that carries the
\* platform's error code, and no further request is sent.
C25_NoAutomaticRetry ==
    /\ [](\A k \in TaskIds :
             /\ client.task[k].posts <= 1
             /\ client.task[k].pc = "sleep" => client.task[k].posts = 0
             /\ client.task[k].pc = "post" => client.task[k].posts = 1)
    /\ [][\A k \in TaskIds :
             (client.task[k].pc = "post" /\ client'.task[k] # client.task[k]) =>
                 /\ client'.task[k].pc = "idle"
                 /\ client'.task[k].posts = 1
                 /\ client'.task[k].outcome \in
                        {"ok", "Slack API error: channel_not_found"}]_vars

\* C25 witness: a send_message call was admitted, its one request was
\* answered with an error and the call has ended with the exception.
C25_Witness ==
    /\ client.message_history # << >>
    /\ client.call_history = << >>
    /\ \E k \in TaskIds :
          /\ client.task[k].pc = "idle"
          /\ client.task[k].outcome = "Slack API error: channel_not_found"
          /\ client.task[k].posts = 1

----------------------------------------------------------------------------
(* The requests of one batch dispatch *)

\* the request posted last
LastSent == sent[Len(sent)]

\* this step is the answer to the append call and the answer is no success
\* (after a success the submit call is posted)
AppendFailed == pc = "append" /\ pc' \notin {"append", "submit"}

\* C26 as stated, for the append call: whenever the append call of a batch
\* dispatch fails, by a non-200 response or by a transport error, a
\* show-toast call is posted to the same callback endpoint.
C26_ToastAfterFailedAppend ==
    [][AppendFailed =>
          /\ pc' = "toast"
          /\ sent' # << >>
          /\ LastSent'.call = "toast"
          /\ LastSent'.port = loc.opencode_port]_vars

\* the positions of sent at which call was posted
SentAs(call) == {i \in 1..Len(sent) : sent[i].call = call}

\* C27: the requests of one batch dispatch are at most one append, at most
\* one submit and at most one toast; the append comes first, a submit was
\* posted only after the append was answered with 200, and a toast was
\* posted only after the append or the submit was answered with another
\* status, so never when both succeeded.
C27_DispatchOrder ==
    /\ \A call \in {"append", "submit", "toast"} : Cardinality(SentAs(call)) <= 1
    /\ sent # << >> => sent[1].call = "append"
    /\ \A i \in SentAs("submit") :
          i = 2 /\ sent[1].status = 200
    /\ \A i \in SentAs("toast") :
          /\ i = Len(sent)
          /\ sent[i - 1].call \in {"append", "submit"}
          /\ sent[i - 1].status = 500
          /\ \A j \in 1..(i - 2) : sent[j].status = 200
    /\ \A i \in 1..(Len(sent) - 1) : sent[i].status # Waiting

\* C27 witness: append succeeded, submit was answered with 500 and the
\* toast is on its way.
C27_Witness ==
    /\ pc = "toast"
    /\ Len(sent) = 3
    /\ sent[1].call = "append" /\ sent[1].status = 200
    /\ sent[2].call = "submit" /\ sent[2].status = 500
    /\ sent[3].call = "toast" /\ sent[3].status = Waiting

\* C28 as stated, for the reads: a get_messages or get_relevant_messages
\* call whose agent identifier is no configured token is answered with a
\* client error and makes no platform call with any agent's credentials.
C28_UnknownAgentRejected ==
    ( /\ reply.name \in {"get_messages", "get_relevant_messages"}
      /\ reply.color # ""
      /\ reply.color \notin AgentConfigs )
    => /\ reply.http \in 400..499
       /\ reply.via = ""

----------------------------------------------------------------------------
(* Gateway: required parameters of the reads and the file operations *)

\* the answer of a file operation: 400 without file_id, otherwise the call
\* of the gateway method with the client get_slack_client chooses; ok tells
\* whether the platform answered with success
FileAnswer(name, agent_color, file_id, ok) ==
    LET call == [NoReply EXCEPT !.name = name, !.color = agent_color,
                                !.file_id = file_id, !.seq = 1 - reply.seq]
    IN  IF file_id = ""
        THEN [call EXCEPT !.http = 400, !.success = FALSE,
                          !.error = "file_id parameter is required"]
        ELSE IF ~ok
        THEN [call EXCEPT !.http = 500, !.success = FALSE,
                          !.error = "Slack API error",
                          !.via = get_slack_client(agent_color)]
        ELSE [call EXCEPT !.via = get_slack_client(agent_color)]

\* GET /download_file
download_file(agent_color, file_id, ok) ==
    /\ reply' = FileAnswer("download_file", agent_color, file_id, ok)
    /\ UNCHANGED <<now, server, outgoing, cache, client, channel, registered_agents, pc, it, loc, sent, hist, tick>>

\* POST /delete_file
delete_file(agent_color, file_id, ok) ==
    /\ reply' = FileAnswer("delete_file", agent_color, file_id, ok)
    /\ UNCHANGED <<now, server, outgoing, cache, client, channel, registered_agents, pc, it, loc, sent, hist, tick>>

\* file_id as sent by the caller; "" is an absent parameter
FileIds == {"", "F1"}

DownloadCall ==
    \E c \in Tokens, f \in FileIds, ok \in BOOLEAN : download_file(c, f, ok)

DeleteCall ==
    \E c \in Tokens, f \in FileIds, ok \in BOOLEAN : delete_file(c, f, ok)

NextParams ==
    \/ Register
    \/ GetRelevantCall
    \/ DownloadCall
    \/ DeleteCall

SpecParams == Init /\ [][NextParams]_vars

\* C29 as stated: a get_relevant_messages or download_file request without
\* agent_color, and a delete_file request without file_id, is answered with
\* HTTP 400 and no platform call is made.
C29_RequiredParameters ==
    ( \/ reply.name \in {"get_relevant_messages", "download_file"} /\ reply.color = ""
      \/ reply.name = "delete_file" /\ reply.file_id = "" )
    => /\ reply.http = 400
       /\ reply.via = ""

----------------------------------------------------------------------------
(* SlackDaemon.stop: the monitoring task is cancelled *)

\* variant: the cancellation is caught by `except Exception' and the task
\* goes on from where it was
CancelledSwallowed(p) == p

\* monitoring_task.cancel() and `await self.monitoring_task': CancelledError
\* is raised at the await the task is suspended in; it is no Exception, so no
\* except clause of the loop or of _notify_agent_batch catches it and the
\* task ends
Cancelled(p) == "stopped"

\* stop() has not been called
Running == reply.name # "stop"

\* stop(), up to the end of `await self.monitoring_task'; the call is kept
\* in reply
stop ==
    /\ Running
    /\ pc' = Cancelled(pc)
    /\ reply' = [NoReply EXCEPT !.name = "stop"]
    /\ UNCHANGED <<now, server, outgoing, cache, client, channel, registered_agents, it, loc, sent, hist, tick>>

\* the daemon until and after stop(): the gateway serves no request after
\* it, the clock goes on
NextStop ==
    \/ AdvanceClock
    \/ Running /\ NewMessage
    \/ Running /\ Register
    \/ WakeAndStart
    \/ RetryWake
    \/ FetchOk
    \/ FetchFail
    \/ AppendAnswered
    \/ SubmitAnswered
    \/ ToastAnswered
    \/ stop

SpecStop == Init /\ [][NextStop]_vars

\* C30: once stop() has cancelled the monitoring task, no step starts a
\* fetch, answers one, posts or answers a request of a dispatch, or writes
\* the registry: the task's position, its locals, the posted requests, the
\* history of the tick and the registry stay as they were at the stop,
\* whether the task was sleeping or suspended in a tick.
C30_NothingAfterStop ==
    [][~Running =>
          /\ pc' = "stopped"
          /\ registered_agents' = registered_agents
          /\ sent' = sent
          /\ loc' = loc
          /\ it' = it
          /\ tick' = tick
          /\ hist' = hist]_vars

\* C30 witness: stop() came while the append call of a dispatch was
\* unanswered, time has passed since, and the watermark of the agent is
\* still the one the tick read.
C30_Witness ==
    /\ ~Running
    /\ pc = "stopped"
    /\ sent # << >>
    /\ LastSent.status = Waiting
    /\ now = Sec5 + MaxClock * ClockStep
    /\ Registered(loc.agent_color)
    /\ Watermark(loc.agent_color) = loc.agent_last_timestamp

----------------------------------------------------------------------------
(* The monitoring loop under errors *)

\* the awaits of the while loop
LoopStates == {"sleep", "retry_sleep"} \cup LiveStates

\* the daemon with its scheduling: a sleep returns, and a request to the
\* platform or to a callback is answered or fails.  The task is suspended in
\* one await at a time, so fairness of its next step is fairness of each.
\* the monitoring task takes its next step
LoopStep ==
    \/ WakeAndStart
    \/ RetryWake
    \/ FetchOk
    \/ FetchFail
    \/ AppendAnswered
    \/ SubmitAnswered
    \/ ToastAnswered

\* the daemon at one instant of the clock
NextSurvives ==
    \/ NewMessage
    \/ Register
    \/ Unregister
    \/ LoopStep

SpecSurvives ==
    /\ Init
    /\ [][NextSurvives]_vars
    /\ WF_vars(LoopStep)

\* C31: the monitoring task is always at one of the awaits of its loop;
\* after a loop-level exception (the task sleeps in the outer except clause)
\* it comes back to the sleep at the top of the loop, and after a per-agent
\* exception (the fetch of some token raised in this tick) a next tick
\* begins, which is when the record of the failed fetches is cleared.
C31_LoopSurvivesErrors ==
    /\ [](pc \in LoopStates)
    /\ (pc = "retry_sleep") ~> (pc = "sleep")
    /\ (tick.failed # {}) ~> (tick.failed = {})

\* C31 witness: in one tick the fetch for a token raised and then the dict
\* iterator raised; the task sleeps in the outer except clause.
C31_Witness ==
    /\ pc = "retry_sleep"
    /\ tick.failed # {}

----------------------------------------------------------------------------
(* HTTPServer._discover_available_port *)

BASE_PORT == 19842
PORT_RANGE_SIZE == 1000
MAX_PORT == BASE_PORT + PORT_RANGE_SIZE - 1

\* get_project_port: BASE_PORT + hash_int % PORT_RANGE_SIZE
get_project_port(hash_int) == BASE_PORT + (hash_int % PORT_RANGE_SIZE)

\* is_port_available: the bind to 127.0.0.1 succeeds
is_port_available(port, occupied) == port \notin occupied

\* variant: the scan stops at MAX_PORT
PastRangeAtMax(port) == port > MAX_PORT

\* the safety check of the scan: port > BASE_PORT + PORT_RANGE_SIZE
PastRange(port) == port > BASE_PORT + PORT_RANGE_SIZE

\* while not is_port_available(port): port += 1; if past the range: raise
RECURSIVE Scan(_, _)
Scan(port, occupied) ==
    IF is_port_available(port, occupied) THEN [port |-> port, error |-> ""]
    ELSE IF PastRange(port + 1)
         THEN [port |-> 0, error |-> "Cannot find available port in range"]
         ELSE Scan(port + 1, occupied)

\* the first 32 bits of the md5 of the working directory; only the residue
\* modulo PORT_RANGE_SIZE is used
HashInputs == {0, 1, 998, 999, 1999, 2147482999, 2147483647}

\* the ports that other processes may hold
ProbePorts == {19842, 19843, 20840, 20841, 20842, 20843}

\* the working directory and the bound ports the constructor meets
InitPorts ==
    /\ now = Sec5
    /\ channel = {}
    /\ registered_agents = << >>
    /\ pc = "sleep"
    /\ it = NoIter
    /\ loc = NoLoc
    /\ sent = << >>
    /\ reply = NoReply
    /\ hist = [c \in Tokens \ {""} |-> NoHist]
    /\ tick = NoTick
    /\ client = NoClient
    /\ cache = NoCache
    /\ outgoing = NoOutgoing
    /\ \E h \in HashInputs, o \in SUBSET ProbePorts :
           server = [NoServer EXCEPT !.hash_int = h, !.occupied = o]

\* self.port = self._discover_available_port(): the scan, then the write of
\* the port file, which succeeds (written) or raises
discover_available_port(written) ==
    /\ server.port = 0
    /\ server.error = ""
    /\ LET found == Scan(get_project_port(server.hash_int), server.occupied)
       IN  server' =
               IF found.error # "" THEN [server EXCEPT !.error = found.error]
               ELSE IF ~written
                    THEN [server EXCEPT !.error = "Failed to write port file"]
                    ELSE [server EXCEPT !.port = found.port,
                                        !.port_file = found.port]
    /\ UNCHANGED <<now, cache, client, outgoing, channel, registered_agents, pc, it, loc, sent, reply, hist, tick>>

Discover == discover_available_port(TRUE)

DiscoverUnwritable == discover_available_port(FALSE)

NextPorts ==
    \/ Discover
    \/ DiscoverUnwritable

SpecPorts == InitPorts /\ [][NextPorts]_vars

\* the free ports of the range at or after the derived port
FreeFrom(hash_int, occupied) ==
    {q \in get_project_port(hash_int)..MAX_PORT : q \notin occupied}

\* C32: a port that discovery returned lies in BASE_PORT..MAX_PORT and is
\* the first free port at or after the hash-derived one; where the
\* constructor ended without a port, it ended with an error.
C32_PortInRange ==
    /\ server.port # 0 =>
           /\ server.port \in BASE_PORT..MAX_PORT
           /\ FreeFrom(server.hash_int, server.occupied) # {}
           /\ \A q \in FreeFrom(server.hash_int, server.occupied) : server.port <= q
           /\ server.port \notin server.occupied
    /\ (server.port = 0 /\ server.error = "") => ENABLED NextPorts

----------------------------------------------------------------------------
(* replace_agent_mentions *)

\* tokens a text is made of
MaxTokens == 2

\* re.IGNORECASE on one character
IgnoreCase(ch) ==
    CASE ch \in DOMAIN UpperToLower -> UpperToLower[ch]
      [] ch = "S" -> "s"
      [] ch = "U" -> "u"
      [] OTHER -> ch

\* re.match of a pattern at 1-based position i of text, from element k of
\* the pattern on: the length of the match, -1 when there is none.  The
\* pattern is "@" and the escaped name, in which every "-" stands for
\* [\s\-]? (greedy, with backtracking).
RECURSIVE MatchLen(_, _, _, _)
MatchLen(pattern, k, text, i) ==
    IF k > Len(pattern) THEN 0
    ELSE IF pattern[k] = "-"
    THEN LET taken == IF i <= Len(text) /\ text[i] \in {" ", "-"}
                      THEN MatchLen(pattern, k + 1, text, i + 1) ELSE -1
         IN  IF taken >= 0 THEN taken + 1 ELSE MatchLen(pattern, k + 1, text, i)
    ELSE IF i <= Len(text) /\ IgnoreCase(text[i]) = IgnoreCase(pattern[k])
    THEN LET rest == MatchLen(pattern, k + 1, text, i + 1)
         IN  IF rest >= 0 THEN rest + 1 ELSE -1
    ELSE -1

\* re.sub(pattern, replacement, text, flags=re.IGNORECASE) from position i:
\* the leftmost matches, not overlapping
RECURSIVE ReSub(_, _, _, _)
ReSub(pattern, replacement, text, i) ==
    IF i > Len(text) THEN << >>
    ELSE LET n == MatchLen(pattern, 1, text, i)
         IN  IF n > 0 THEN replacement \o ReSub(pattern, replacement, text, i + n)
             ELSE <<text[i]>> \o ReSub(pattern, replacement, text, i + 1)

\* the body of the for loop: the name pattern, then the color pattern
ReplaceFor(text, config) ==
    IF config.bot_user_id = << >> THEN text
    ELSE LET replacement == <<"<", "@">> \o config.bot_user_id \o <<">">>
             named == IF config.name = << >> THEN text
                      ELSE ReSub(<<"@">> \o config.name, replacement, text, 1)
         IN  ReSub(<<"@">> \o AgentDash \o ColorChars(config.color),
                   replacement, named, 1)

\* for color, config in agent_configs.items(): ...
RECURSIVE replace_agent_mentions(_, _)
replace_agent_mentions(text, agent_configs) ==
    IF agent_configs = << >> THEN text
    ELSE replace_agent_mentions(ReplaceFor(text, Head(agent_configs)),
                                Tail(agent_configs))

ConfigOf(color, name, bot_user_id) ==
    [color |-> color, name |-> name, bot_user_id |-> bot_user_id]

\* "agents" sections: a named and an unnamed agent; an agent without
\* bot_user_id; a name that is the beginning of another name; a name with a
\* hyphen; a name that is the beginning of another agent's user id
Directories ==
    { << ConfigOf("red", <<"s", "a", "m">>, <<"U", "1">>),
         ConfigOf("blue", << >>, <<"U", "2">>) >>,
      << ConfigOf("red", <<"s", "a", "m">>, << >>),
         ConfigOf("blue", << >>, <<"U", "2">>) >>,
      << ConfigOf("red", <<"s", "a", "m">>, <<"U", "1">>),
         ConfigOf("blue", <<"s", "a", "m", "m", "y">>, <<"U", "2">>) >>,
      << ConfigOf("red", <<"a", "g", "e", "n", "t", "-", "s", "a", "m">>, <<"U", "1">>) >>,
      << ConfigOf("blue", <<"u", "1">>, <<"U", "2">>),
         ConfigOf("red", <<"s", "a", "m">>, <<"U", "1">>) >> }

MentionTokens ==
    { <<"@", "s", "a", "m">>,
      <<"@", "S", "a", "m", "m", "y">>,
      <<"@", "a", "g", "e", "n", "t", "-", "r", "e", "d">>,
      <<"@", "A", "g", "e", "n", "t", " ", "R", "e", "d">>,
      <<"@", "a", "g", "e", "n", "t", "b", "l", "u", "e">>,
      <<"@", "a", "g", "e", "n", "t", " ", "s", "a", "m">>,
      <<"@", "u", "1">>,
      <<"<", "@", "U", "1", ">">>,
      <<" ", "h", "i", " ">> }

RECURSIVE Joined(_)
Joined(tokens) == IF tokens = << >> THEN << >> ELSE Head(tokens) \o Joined(Tail(tokens))

MentionTexts == { Joined(t) : t \in UNION { [1..n -> MentionTokens] : n \in 0..MaxTokens } }

\* the text and the configuration of one send_message call
InitMentions ==
    /\ now = Sec5
    /\ channel = {}
    /\ registered_agents = << >>
    /\ pc = "sleep"
    /\ it = NoIter
    /\ loc = NoLoc
    /\ sent = << >>
    /\ reply = NoReply
    /\ hist = [c \in Tokens \ {""} |-> NoHist]
    /\ tick = NoTick
    /\ client = NoClient
    /\ cache = NoCache
    /\ server = NoServer
    /\ \E t \in MentionTexts, d \in Directories :
           outgoing = [NoOutgoing EXCEPT !.agent_configs = d, !.original = t, !.text = t]

\* text = replace_agent_mentions(text, self.agent_configs), at most twice
RewriteMentions ==
    /\ outgoing.applied < 2
    /\ outgoing' = [outgoing EXCEPT
                        !.text = replace_agent_mentions(@, outgoing.agent_configs),
                        !.applied = @ + 1]
    /\ UNCHANGED <<now, cache, client, server, channel, registered_agents, pc, it, loc, sent, reply, hist, tick>>

NextMentions == RewriteMentions

SpecMentions == InitMentions /\ [][NextMentions]_vars

\* C33: rewriting a text that was rewritten before leaves it as it is:
\* replace_agent_mentions(replace_agent_mentions(text)) equals
\* replace_agent_mentions(text), for every text and every directory.
C33_RewriteIdempotent ==
    [][outgoing.applied >= 1 => outgoing'.text = outgoing.text]_vars

----------------------------------------------------------------------------
(* More new messages between two ticks than one fetch returns *)

\* the timestamps of MonitorLimit + 1 messages posted one microsecond apart
BurstStamps == {Fmt6(Sec5) + k : k \in 0..MonitorLimit}

\* users post MonitorLimit + 1 messages while the monitoring task sleeps
Burst ==
    /\ channel = {}
    /\ pc = "sleep"
    /\ channel' = {[timestamp |-> t, user_id |-> HumanUser,
                    text |-> <<"@", "r", "e", "d", " ", "h", "i">>,
                    reactions |-> << >>, hidden |-> FALSE] : t \in BurstStamps}
    /\ UNCHANGED <<now, cache, client, server, outgoing, registered_agents, pc, it, loc, sent, reply, hist, tick>>

NextBurst ==
    \/ Register
    \/ Burst
    \/ LoopStep

\* the daemon at one instant of the clock
SpecBurst == Init /\ [][NextBurst]_vars

\* the message m is one that get_messages returns when it is asked for the
\* messages after oldest
VisibleAfter(m, oldest) == ~m.hidden /\ (oldest = NoTs \/ m.timestamp > oldest)

\* a fetch of this tick for c returned the message with timestamp t, which
\* the loop body passes to the filter
FetchedFor(c, t) ==
    \E f \in tick.fetched : f.color = c /\ t \in Timestamps(f.messages)

\* C34: no new message is skipped, also when more than MonitorLimit
\* messages are new: when the loop writes the watermark of an agent, every
\* message of the channel that was newer than the watermark the tick read
\* and is not newer than the one it writes was in the batch fetched for the
\* agent in this tick.  (A message the watermark has passed is in no later
\* batch: a fetch returns only messages newer than the watermark.)
C34_NoNewMessageSkipped ==
    [][\A c \in SlackClients :
          (WatermarkWritten(c) /\ InFlight(c)) =>
              \A m \in channel :
                  (/\ VisibleAfter(m, loc.agent_last_timestamp)
                   /\ m.timestamp <= Watermark(c)')
                      => FetchedFor(c, m.timestamp)']_vars

----------------------------------------------------------------------------
(* Notifications of one registration *)

\* this step starts a dispatch to agent c: the loop body calls
\* _notify_agent_batch with loc'.relevant_messages
DispatchStarts(c) ==
    pc = "fetch" /\ pc' = "append" /\ loc.agent_color = c

\* C35: within one registration no message is in two batch notifications
\* to an agent: every message of a batch the loop dispatches is newer than
\* every message a fetch returned for the agent before (hist.maxseen, which
\* starts anew with each register call), and so than every message of an
\* earlier batch.
C35_NoDuplicateNotification ==
    [][\A c \in SlackClients :
          (DispatchStarts(c) /\ hist[c].maxseen # NoTs) =>
              \A t \in Timestamps(loc'.relevant_messages) : t > hist[c].maxseen]_vars

\* C35 witness: the second dispatch of one registration: the channel holds
\* two mentions of the agent, the tick read the timestamp of the older one
\* as watermark, and the batch being dispatched is the newer one alone.
C35_Witness ==
    /\ pc = "append"
    /\ hist[loc.agent_color].clean
    /\ Len(loc.relevant_messages) = 1
    /\ \E m \in channel :
           /\ ~m.hidden
           /\ m.timestamp = loc.agent_last_timestamp
           /\ m.timestamp < loc.relevant_messages[1].timestamp
           /\ Relevant(loc.agent_color,
                       <<[timestamp |-> m.timestamp, user_id |-> m.user_id,
                          text |-> m.text, reactions |-> m.reactions]>>) # << >>

----------------------------------------------------------------------------
(* Mentions after a longer mention *)

\* "@c" occurs in the lowered text followed by the end of the text or by a
\* character that is neither alphanumeric nor a hyphen
GenuineMention(c, text) ==
    LET mention    == <<"@">> \o ColorChars(c)
        text_lower == Lower(text)
    IN  \E i \in 1..Len(text_lower) :
            /\ MatchAt(mention, text_lower, i)
            /\ \/ i + Len(mention) > Len(text_lower)
               \/ /\ ~IsAlnum(text_lower[i + Len(mention)])
                  /\ text_lower[i + Len(mention)] # "-"

\* C36: a message that is not the agent's own and carries no reaction of the
\* agent, and whose text has a genuine mention "@c" at any position, is
\* returned by the filter for agent c, also when an earlier "@c" of the text
\* begins a longer mention.
C36_GenuineMentionFound ==
    \A c \in Tokens \ {""} :
        Filtered(c) =>
            \A i \in 1..Len(loc.messages) :
                (/\ ~OwnMessage(loc.messages[i], c)
                 /\ ~ReactedBy(loc.messages[i], c)
                 /\ GenuineMention(c, loc.messages[i].text))
                    => IsReturned(loc.messages[i])

----------------------------------------------------------------------------
(* Unregistration while a tick is in flight *)

\* this step posts a request (append, submit or toast) to the callback
\* endpoint of the agent whose loop body is running
Posts == pc' \in {"append", "submit", "toast"} /\ pc' # pc

\* this step is one of the monitoring task
TaskStep == pc' # pc \/ it' # it \/ loc' # loc

\* C37: no request is posted to the callback endpoint of a token that is
\* not registered: after unregister(token) has deleted the entry, the tick
\* in flight for the token posts nothing for it until it is registered
\* again; and no step of the monitoring task puts a token into the registry.
C37_NoNotificationAfterUnregister ==
    [][/\ Posts => Registered(loc.agent_color)
       /\ TaskStep => \A c \in Tokens \ {""} : Registered(c)' => Registered(c)]_vars

\* the second half of C37 alone
C37_NoEntryRecreated ==
    [][TaskStep => \A c \in Tokens \ {""} : Registered(c)' => Registered(c)]_vars

----------------------------------------------------------------------------
(* Re-registration with a new endpoint while a tick is in flight *)

\* register calls of agents that move to another callback port
RegisterMoved ==
    \E t \in SlackClients, p \in Ports : register_agent(t, p) /\ reply' = reply

NextMoves ==
    \/ AdvanceClock
    \/ NewMessage
    \/ RegisterMoved
    \/ LoopStep

SpecMoves == Init /\ [][NextMoves]_vars

\* the loop body for c is suspended and a register call for c arrived
\* while it was
ReRegisteredInFlight(c) == InFlight(c) /\ ~hist[c].clean /\ Registered(c)

\* C38, first half: a request the tick posts after the re-registration goes
\* to the port the registry holds for the token.
C38_NotifiesCurrentEndpoint ==
    [][\A c \in SlackClients :
          (ReRegisteredInFlight(c) /\ Posts) =>
              sent'[Len(sent')].port = Entry(c).opencode_port]_vars

\* C38, second half: the watermark write of that tick does not lower the
\* watermark the re-registration installed.
C38_WriteKeepsInstalledWatermark ==
    [][\A c \in SlackClients :
          (ReRegisteredInFlight(c) /\ TaskStep /\ Registered(c)') =>
              Watermark(c)' >= Watermark(c)]_vars

\* C38: when a token is re-registered while its loop body is suspended, the
\* requests the tick posts afterwards go to the port now in the registry,
\* and the watermark write of the tick does not lower the watermark the
\* re-registration installed.
C38_ReRegistrationDuringTick ==
    [][\A c \in SlackClients :
          ReRegisteredInFlight(c) =>
              /\ Posts => sent'[Len(sent')].port = Entry(c).opencode_port
              /\ (TaskStep /\ Registered(c)') => Watermark(c)' >= Watermark(c)]_vars

----------------------------------------------------------------------------
(* SlackAPIClient._update_cache_if_needed *)

\* self.cache_expiry = timedelta(minutes=5), in minutes
CacheExpiry == 5

\* self.last_cache_update is None or now - self.last_cache_update > self.cache_expiry
Expired(last_cache_update) ==
    last_cache_update = Never \/ last_cache_update > CacheExpiry

\* task k calls _update_cache_if_needed (from get_channels or
\* _get_user_name): it reads the clock and tests the expiry; when the cache
\* is expired it awaits _update_channels_cache, whose conversations.list
\* request is sent now; otherwise it returns at once
update_cache_if_needed(k) ==
    /\ cache.task[k].pc = "idle"
    /\ IF Expired(cache.last_cache_update)
       THEN cache' = [cache EXCEPT
                         !.task[k] = [pc |-> "channels", since |-> 0],
                         !.requests.channels = Append(@, 0)]
       ELSE UNCHANGED cache
    /\ UNCHANGED <<now, client, server, outgoing, channel, registered_agents, pc, it, loc, sent, reply, hist, tick>>

\* conversations.list is answered or fails (_update_channels_cache catches
\* the exception); the task awaits _update_users_cache, whose users.list
\* request is sent now
ChannelsAnswered(k) ==
    /\ cache.task[k].pc = "channels"
    /\ cache' = [cache EXCEPT !.task[k].pc = "users",
                              !.requests.users = Append(@, 0)]
    /\ UNCHANGED <<now, client, server, outgoing, channel, registered_agents, pc, it, loc, sent, reply, hist, tick>>

\* users.list is answered or fails; self.last_cache_update = now, the clock
\* value the task read on entry
UsersAnswered(k) ==
    /\ cache.task[k].pc = "users"
    /\ cache' = [cache EXCEPT !.last_cache_update = cache.task[k].since,
                              !.task[k] = IdleAccess]
    /\ UNCHANGED <<now, client, server, outgoing, channel, registered_agents, pc, it, loc, sent, reply, hist, tick>>

\* the ages after d more minutes, those above the expiry left out
Recent(ages, d) ==
    SelectSeq([i \in 1..Len(ages) |-> ages[i] + d], LAMBDA age : age <= CacheExpiry)

\* d minutes pass
MinutesPass(d) ==
    /\ cache.elapsed < MaxElapse
    /\ cache' = [cache EXCEPT
                     !.last_cache_update =
                         IF @ = Never THEN Never ELSE Min(@ + d, CacheExpiry + 1),
                     !.task = [k \in TaskIds |->
                                  IF @[k].pc = "idle" THEN @[k]
                                  ELSE [@[k] EXCEPT !.since = Min(@ + d, CacheExpiry + 1)]],
                     !.requests = [m \in DOMAIN @ |-> Recent(@[m], d)],
                     !.elapsed = @ + 1]
    /\ UNCHANGED <<now, client, server, outgoing, channel, registered_agents, pc, it, loc, sent, reply, hist, tick>>

Access == \E k \in TaskIds : update_cache_if_needed(k)

ChannelsStep == \E k \in TaskIds : ChannelsAnswered(k)

UsersStep == \E k \in TaskIds : UsersAnswered(k)

CacheClock == \E d \in {1, CacheExpiry} : MinutesPass(d)

NextCache ==
    \/ Access
    \/ ChannelsStep
    \/ UsersStep
    \/ CacheClock

SpecCache == Init /\ [][NextCache]_vars

\* this step starts a refresh
RefreshStarts == Len(cache'.requests.channels) > Len(cache.requests.channels)

\* C39: a refresh starts only when the cache was never filled or was filled
\* more than CacheExpiry minutes ago, and within any CacheExpiry minutes at
\* most one refresh starts, also when two tasks access the cache
\* concurrently.
C39_OneRefreshPerExpiry ==
    /\ [](Len(cache.requests.channels) <= 1)
    /\ [][RefreshStarts => Expired(cache.last_cache_update)]_vars

\* the first half of C39 alone
C39_RefreshOnlyWhenExpired ==
    [][RefreshStarts => Expired(cache.last_cache_update)]_vars

----------------------------------------------------------------------------
(* convert_markdown_to_slack *)

\* characters of a text
MaxText == 7

\* the character U+0060 as an element of a text (a string of the module
\* cannot hold it)
Backtick == "backtick"

\* f"__BOLD_PLACEHOLDER_{n}__", kept as one element of the text (the texts
\* of the model contain no underscore, so no part of a placeholder can
\* belong to another match)
Placeholder(n) ==
    CASE n = 0 -> "__BOLD_PLACEHOLDER_0__"
      [] n = 1 -> "__BOLD_PLACEHOLDER_1__"
      [] OTHER -> "__BOLD_PLACEHOLDER_2__"

\* a match of delim (.+?) delim, or of delim ([^x]+?) delim, at position i:
\* the position of the closing delimiter of the shortest match, 0 when
\* there is no match; excluded are the characters the group cannot hold
MinClose(text, i, delim, excluded) ==
    LET c == i + Len(delim)
        closes == {j \in (c + 1)..(Len(text) - Len(delim) + 1) :
                      /\ MatchAt(delim, text, j)
                      /\ \A k \in c..(j - 1) : text[k] \notin excluded}
    IN  IF MatchAt(delim, text, i) /\ closes # {}
        THEN CHOOSE j \in closes : \A x \in closes : j <= x
        ELSE 0

\* step 1: re.sub(r'\*\*(.+?)\*\*', store_bold, text), from position i with
\* n patterns stored so far
RECURSIVE StoreBold(_, _, _)
StoreBold(text, i, n) ==
    IF i > Len(text) THEN << >>
    ELSE LET j == MinClose(text, i, <<"*", "*">>, {"\n"})
         IN  IF j > 0 THEN <<Placeholder(n)>> \o StoreBold(text, j + 2, n + 1)
             ELSE <<text[i]>> \o StoreBold(text, i + 1, n)

\* bold_patterns after step 1
RECURSIVE bold_patterns(_, _)
bold_patterns(text, i) ==
    IF i > Len(text) THEN << >>
    ELSE LET j == MinClose(text, i, <<"*", "*">>, {"\n"})
         IN  IF j > 0 THEN <<SubSeq(text, i + 2, j - 1)>> \o bold_patterns(text, j + 2)
             ELSE bold_patterns(text, i + 1)

\* re.sub of delim ([^delim]+?) delim by left \1 right, from position i
RECURSIVE Rewrap(_, _, _, _, _)
Rewrap(text, i, delim, left, right) ==
    IF i > Len(text) THEN << >>
    ELSE LET j == MinClose(text, i, delim, {delim[1]})
         IN  IF j > 0
             THEN left \o SubSeq(text, i + Len(delim), j - 1) \o right
                       \o Rewrap(text, j + Len(delim), delim, left, right)
             ELSE <<text[i]>> \o Rewrap(text, i + 1, delim, left, right)

\* step 4: every placeholder replaced by its pattern between asterisks
RECURSIVE RestoreBold(_, _)
RestoreBold(text, patterns) ==
    IF text = << >> THEN << >>
    ELSE (IF \E n \in 1..Len(patterns) : Head(text) = Placeholder(n - 1)
          THEN LET n == CHOOSE n \in 1..Len(patterns) : Head(text) = Placeholder(n - 1)
               IN  <<"*">> \o patterns[n] \o <<"*">>
          ELSE <<Head(text)>>)
         \o RestoreBold(Tail(text), patterns)

convert_markdown_to_slack(text) ==
    LET stored == StoreBold(text, 1, 0)
        italic == Rewrap(stored, 1, <<"*">>, <<"_">>, <<"_">>)
        code   == Rewrap(italic, 1, <<Backtick>>, <<Backtick, Backtick, Backtick>>, <<Backtick, Backtick, Backtick>>)
    IN  RestoreBold(code, bold_patterns(text, 1))

MarkupChars == {"*", Backtick, "a"}

MarkupTexts == UNION { [1..n -> MarkupChars] : n \in 0..MaxText }

\* the text of one send_message call
InitMarkup ==
    /\ now = Sec5
    /\ channel = {}
    /\ registered_agents = << >>
    /\ pc = "sleep"
    /\ it = NoIter
    /\ loc = NoLoc
    /\ sent = << >>
    /\ reply = NoReply
    /\ hist = [c \in Tokens \ {""} |-> NoHist]
    /\ tick = NoTick
    /\ client = NoClient
    /\ server = NoServer
    /\ cache = NoCache
    /\ \E t \in MarkupTexts :
           outgoing = [NoOutgoing EXCEPT !.original = t, !.text = t]

\* text = convert_markdown_to_slack(text), at most twice
ConvertMarkup ==
    /\ outgoing.applied < 2
    /\ outgoing' = [outgoing EXCEPT !.text = convert_markdown_to_slack(@),
                                    !.applied = @ + 1]
    /\ UNCHANGED <<now, client, server, cache, channel, registered_agents, pc, it, loc, sent, reply, hist, tick>>

NextMarkup == ConvertMarkup

SpecMarkup == InitMarkup /\ [][NextMarkup]_vars

CodeBlock == <<Backtick, Backtick, Backtick, "a", Backtick, Backtick, Backtick>>

InlineCode == <<Backtick, "a", Backtick>>

\* C40: the conversion leaves a triple-backtick code block as it is, turns
\* single-backtick code into a triple-backtick block, and changes nothing
\* in a text that is already converted.
C40_CodeBlocksKept ==
    [][/\ outgoing.text = CodeBlock => outgoing'.text = CodeBlock
       /\ outgoing.text = InlineCode => outgoing'.text = CodeBlock
       /\ outgoing.applied >= 1 => outgoing'.text = outgoing.text]_vars

\* the part of C40 about single backticks alone
C40_InlineCodeTripled ==
    [][outgoing.text = InlineCode => outgoing'.text = CodeBlock]_vars

====
